---- MODULE Spec2Model ----
(***************************************************************************)
(* A model of five parts of the permanode:                                 *)
(*   - the partitioned paging engine `page` of the HTTP listener           *)
(*     (chronicle-api/src/listener/rocket.rs),                             *)
(*   - the Syncer event loop (permanode-broker/src/syncer/event_loop.rs),  *)
(*   - the Collector event loop                                            *)
(*     (permanode-broker/src/collector/event_loop.rs),                     *)
(*   - the handlers of the HTTP listener, one request at a time,           *)
(*   - the Packable columns of chronicle-storage/src/access/types.rs.      *)
(* Each part has its own specification (SpecPage, SpecSyncer,              *)
(* SpecCollector, SpecApi, SpecCodec); the variables of the other parts    *)
(* stay at their initial values.  SpecCookie runs page from a cookie of a  *)
(* client's making, under weak fairness of the task; SpecLong runs         *)
(* sessions over a longer range of milestones; SpecWide runs sessions      *)
(* under either of two partition configurations; SpecSyncerLive runs the   *)
(* Syncer with solidifiers that answer every request.  Option<T> is        *)
(* modelled as a sequence: <<>> is None and <<x>> is Some(x).              *)
(***************************************************************************)
EXTENDS Integers, Sequences, FiniteSets, TLC

VARIABLES
    \* ---- paging engine ----
    store,                  \* ms -> number of records stored under the key with that ms
    page_size,              \* the page_size of the session's requests
    partition_config,       \* the PartitionConfig page is called with
    state,                  \* Option<StateData>: the cookie passed in and out of page
    pc,                     \* "idle" | "loop" | "peel" | "returned"
    latest_milestone,       \* page's local latest_milestone
    partition_ids,          \* page's local partition_ids: Seq of <<ms, pid>>
    prev_last_partition_id, \* Option<pid> lifted from the cookie
    prev_paging_state,      \* Option<paging state> lifted from the cookie
    list_map,               \* pid -> Paged<VecDeque<row>>
    results,                \* the page being built
    depleted_partitions,    \* set of pids
    last_index_map,         \* pid -> ms
    partition_ind,          \* position of the cycling iterator in partition_ids
    pages,                  \* history: the pages returned so far in this session
    ret,                    \* history: how the last call of page ended
    snapshot,               \* history: latest_milestone computed on the first page
    end_page,               \* history: number of the first page that found every
                            \* partition depleted (0: none yet)
    given,                  \* history: pid -> the paging state handed to the prefetch
                            \* select on that partition in this call of page
    token,                  \* history: pid -> the paging state returned by the last
                            \* select on that partition in this call of page
    cookies,                \* history: the states returned so far in this session
    \* ---- syncer ----
    syncer,                 \* the Syncer's fields, the channels to the solidifiers and
                            \* to the archiver, and the task's status
    boot,                   \* the first milestone data of the solidifiers, not yet delivered
    \* ---- collector ----
    collector,              \* the Collector's fields (lru_msg, lru_msg_ref, est_ms), the
                            \* rows its insert requests have written, the number of
                            \* insert requests, and the task's status
    ref_of,                 \* input: message id -> referenced_by_milestone_index
    last,                   \* history: the event handled last
    delivered,              \* history: the events handed to the event loop so far
    done,                   \* history: message id -> the id's rows when its pair
                            \* (Message, MessageReferenced) had first been processed
    \* ---- HTTP handlers ----
    api,                    \* the request handled, the storage queries made for it
                            \* and the answer
    \* ---- transaction data columns ----
    codec                   \* the value packed or the bytes unpacked, and the result

pvars == <<store, partition_config, page_size, state, pc, latest_milestone, partition_ids,
           prev_last_partition_id, prev_paging_state, list_map, results,
           depleted_partitions, last_index_map, partition_ind, pages, ret,
           snapshot, end_page, given, token, cookies>>

svars == <<syncer, boot>>

cvars == <<collector, ref_of, last, delivered, done>>

avars == <<api>>

kvars == <<codec>>

vars == <<pvars, svars, cvars, avars, kvars>>

NotPage == <<svars, cvars, avars, kvars>>
NotSyncer == <<pvars, cvars, avars, kvars>>
NotCollector == <<pvars, svars, avars, kvars>>
NotApi == <<pvars, svars, cvars, kvars>>
NotCodec == <<pvars, svars, cvars, avars>>

-----------------------------------------------------------------------------
(* Bounds of the model *)

MaxMs == 7              \* milestone indexes are 0..MaxMs
MaxPerMs == 2           \* at most this many records share one ms
MaxRecords == 5         \* at most this many records are stored under the key
MaxPageSize == 3        \* page_size ranges over 1..MaxPageSize
MaxPages == 3           \* a session is followed for at most this many pages
milestone_chunk_size == 2   \* PartitionConfig.milestone_chunk_size
partition_count == 2        \* PartitionConfig.partition_count

-----------------------------------------------------------------------------
(* Generic helpers *)

None == <<>>
Some(x) == <<x>>
IsSome(o) == o # <<>>
Unwrap(o) == o[1]

Min(a, b) == IF a <= b THEN a ELSE b

\* HashMap::insert
Put(m, k, v) == [x \in (DOMAIN m) \cup {k} |-> IF x = k THEN v ELSE m[x]]

RECURSIVE SumTo(_, _)
SumTo(f, n) == IF n < 0 THEN 0 ELSE f[n] + SumTo(f, n - 1)

RECURSIVE Flatten(_)
Flatten(ss) == IF ss = <<>> THEN <<>> ELSE Head(ss) \o Flatten(Tail(ss))

Range(s) == {s[i] : i \in 1..Len(s)}

-----------------------------------------------------------------------------
(* The storage layer, as the paging engine sees it *)

\* The PartitionConfig of the node, and one with more partitions of one
\* milestone each.
PartitionConfig ==
    [partition_count |-> partition_count, milestone_chunk_size |-> milestone_chunk_size]

WideCount == 4
WideChunk == 1

WideConfig == [partition_count |-> WideCount, milestone_chunk_size |-> WideChunk]

\* partitioner: pid = (ms / chunk_size) mod partition_count
partitioner(cfg, ms) == (ms \div cfg.milestone_chunk_size) % cfg.partition_count

PartitionOf(ms) == partitioner(partition_config, ms)

Row(ms, tb) == [pid |-> PartitionOf(ms), ms |-> ms, tb |-> tb]

\* The records stored under the key: tie-breaks 1..store[ms] for every ms.
Records == {Row(p[1], p[2]) : p \in {q \in (DOMAIN store) \X (1..MaxPerMs) : q[2] <= store[q[1]]}}

\* Clustering order of a partition row: ms DESC, then the storage tie-break.
\* The milestone indexes of a store are 0..MaxMs, or 0..LongMs for the
\* sessions over a longer range.
LongMs == 8

TopMs == IF LongMs > MaxMs THEN LongMs ELSE MaxMs

AllRowsOf ==
    [cfg \in {PartitionConfig, WideConfig} |->
        [i \in 1..((TopMs + 1) * MaxPerMs) |->
            LET ms == TopMs - ((i - 1) \div MaxPerMs)
            IN  [pid |-> partitioner(cfg, ms), ms |-> ms, tb |-> ((i - 1) % MaxPerMs) + 1]]]

AllRows == AllRowsOf[partition_config]

\* A storage paging state names the last row a select returned.
After(r, ps) == \/ ps = None
                \/ r.ms < Unwrap(ps).ms
                \/ r.ms = Unwrap(ps).ms /\ r.tb > Unwrap(ps).tb

\* How the storage cuts a result page: "full" returns as many rows as the page
\* size allows, "short" one row less than it could (a short read).  The storage
\* hands out a paging state whenever the result page is full or was cut short.
Cuts == {"full", "short"}

\* select ... where key = ? and partition_id = ? and milestone_index <= ?,
\* with a page size and a paging state.
Select(pid, latest, limit, ps, cut) ==
    LET all == SelectSeq(AllRows, LAMBDA r : /\ r.ms \in DOMAIN store
                                             /\ r.tb <= store[r.ms]
                                             /\ r.pid = pid
                                             /\ r.ms <= latest
                                             /\ After(r, ps))
        m == Min(limit, Len(all))
        n == IF cut = "short" /\ m > 1 THEN m - 1 ELSE m
        rows == SubSeq(all, 1, n)
    IN  [rows |-> rows,
         paging_state |->
            IF n > 0 /\ (n = limit \/ Len(all) > n)
            THEN Some([ms |-> rows[n].ms, tb |-> rows[n].tb])
            ELSE None]

\* The hints table: one (ms, pid) entry per partition holding records of the
\* key, ms being the latest milestone of the key in that partition; the rows
\* come back in clustering order, partition_id DESC.
RECURSIVE HintsFrom(_)
HintsFrom(pid) ==
    IF pid < 0 THEN <<>>
    ELSE LET mss == {r.ms : r \in {x \in Records : x.pid = pid}}
         IN  (IF mss = {} THEN <<>>
              ELSE <<<<CHOOSE m \in mss : \A k \in mss : k <= m, pid>>>>)
             \o HintsFrom(pid - 1)

Hints == HintsFrom(partition_config.partition_count - 1)

-----------------------------------------------------------------------------
(* page: setup *)

fetch_size == 2

chunk(ms) == ms \div partition_config.milestone_chunk_size

StateData(lp, lm, ps, pids) ==
    [last_partition_id |-> lp, last_milestone_index |-> lm,
     paging_state |-> ps, partition_ids |-> pids]

\* Iterator::max_by_key: the last of the entries with the greatest ms.
MaxByKey(s) == CHOOSE i \in 1..Len(s) :
                  /\ \A j \in 1..Len(s) : s[j][1] <= s[i][1]
                  /\ \A j \in (i + 1)..Len(s) : s[j][1] < s[i][1]

\* Mutant: the list is left as the hints table gave it.
Position_Head(s, pid) == 1

\* Iterator::position
Position(s, pid) == CHOOSE i \in 1..Len(s) :
                      /\ s[i][2] = pid
                      /\ \A j \in 1..(i - 1) : s[j][2] # pid

\* partition_ids[i..].chain(partition_ids[..i])
Rotate(s, i) == SubSeq(s, i, Len(s)) \o SubSeq(s, 1, i - 1)

\* The locals of page after the setup, for the cookie st and the list pids.
\* The state with its partition list started at the second entry.
TakenState_Reordered(st) ==
    StateData(None, None, None, Tail(st.partition_ids) \o <<Head(st.partition_ids)>>)

\* Mutant: the fields of the state stay where they are.
TakenState_Kept(st) == st

\* The state after the take() of last_partition_id, last_milestone_index and
\* paging_state: partition_ids stays.
TakenState(st) == StateData(None, None, None, st.partition_ids)

EnterLoop(st, latest, pids) ==
    /\ latest_milestone' = latest
    /\ partition_ids' = pids
    /\ prev_last_partition_id' = st.last_partition_id
    /\ prev_paging_state' = st.paging_state
    /\ state' = Some(TakenState(st))
    /\ list_map' = <<>>
    /\ results' = <<>>
    /\ depleted_partitions' = {}
    /\ last_index_map' = Put(<<>>, pids[1][2],
                             IF IsSome(st.last_milestone_index)
                             THEN Unwrap(st.last_milestone_index) ELSE latest)
    /\ partition_ind' = 1
    /\ given' = <<>>
    /\ token' = <<>>
    /\ pc' = "loop"

\* page called with state = None and an empty hints result: Err(NoResults).
PageNoResults ==
    /\ pc = "idle" /\ state = None
    /\ Hints = <<>>
    /\ pc' = "returned" /\ ret' = "NoResults"
    /\ UNCHANGED <<store, partition_config, page_size, state, latest_milestone, partition_ids,
                   prev_last_partition_id, prev_paging_state, list_map, results,
                   depleted_partitions, last_index_map, partition_ind, pages,
                   snapshot, end_page>>
    /\ UNCHANGED <<given, token, cookies>>
    /\ UNCHANGED NotPage

\* page called with state = None: the partition list comes from the hints table.
PageFirst ==
    /\ pc = "idle" /\ state = None
    /\ Hints # <<>>
    /\ LET m == MaxByKey(Hints)
           first_partition_id == Hints[m][2]
           latest == Hints[m][1]
           pids == Rotate(Hints, Position(Hints, first_partition_id))
       IN  /\ EnterLoop(StateData(None, None, None, pids), latest, pids)
           /\ snapshot' = latest
    /\ UNCHANGED <<store, partition_config, page_size, pages, ret, end_page, cookies>>
    /\ UNCHANGED NotPage

\* The ms of the last entry of the list instead of the first.
LatestOf_Last(st) ==
    IF IsSome(st.last_milestone_index) THEN Unwrap(st.last_milestone_index)
    ELSE st.partition_ids[Len(st.partition_ids)][1]

\* state.last_milestone_index.unwrap_or_else(|| state.partition_ids.first() .. i.0)
LatestOf(st) ==
    IF IsSome(st.last_milestone_index) THEN Unwrap(st.last_milestone_index)
    ELSE st.partition_ids[1][1]

\* page called with the cookie the previous call passed back.
PageResume ==
    /\ pc = "returned" /\ IsSome(state)
    /\ Len(pages) < MaxPages
    /\ LET st == Unwrap(state)
       IN  /\ st.partition_ids # <<>>
           /\ EnterLoop(st, LatestOf(st), st.partition_ids)
    /\ UNCHANGED <<store, partition_config, page_size, pages, ret, snapshot, end_page, cookies>>
    /\ UNCHANGED NotPage

\* page called with a cookie a client presents: any StateData that decodes,
\* with a partition list that is not empty.
PageCookie ==
    /\ pc = "idle" /\ IsSome(state)
    /\ LET st == Unwrap(state)
       IN  /\ st.partition_ids # <<>>
           /\ EnterLoop(st, LatestOf(st), st.partition_ids)
    /\ UNCHANGED <<store, partition_config, page_size, pages, ret, snapshot, end_page, cookies>>
    /\ UNCHANGED NotPage

-----------------------------------------------------------------------------
(* page: the main loop over partition_ids.iter().enumerate().cycle() *)

cur_index == partition_ids[partition_ind][1]
cur_pid == partition_ids[partition_ind][2]

NextInd == (partition_ind % Len(partition_ids)) + 1

\* if !last_index_map.contains_key(partition_id) { insert(partition_id, index) }
WithCurIndex == IF cur_pid \in DOMAIN last_index_map
                THEN last_index_map
                ELSE Put(last_index_map, cur_pid, cur_index)

\* Ok(results), the cookie being what state holds at that moment.
Return(kind, st) ==
    /\ pc' = "returned"
    /\ ret' = kind
    /\ state' = st
    /\ pages' = Append(pages, results)
    /\ cookies' = Append(cookies, st)
    /\ end_page' = IF end_page = 0 /\ kind = "depleted" THEN Len(pages) + 1 ELSE end_page

\* depleted_partitions.len() == partition_ids.len(): break, then Ok(results).
AllDepletedBody(st) ==
    /\ Return("depleted", st)
    /\ last_index_map' = WithCurIndex
    /\ UNCHANGED <<store, partition_config, page_size, latest_milestone, partition_ids,
                   prev_last_partition_id, prev_paging_state, list_map, results,
                   depleted_partitions, partition_ind, snapshot>>
    /\ UNCHANGED <<given, token>>

AllDepleted ==
    /\ pc = "loop"
    /\ Cardinality(depleted_partitions) = Len(partition_ids)
    /\ AllDepletedBody(state)
    /\ UNCHANGED NotPage

\* Skip depleted partitions.
SkipDepleted ==
    /\ pc = "loop"
    /\ Cardinality(depleted_partitions) # Len(partition_ids)
    /\ cur_pid \in depleted_partitions
    /\ last_index_map' = WithCurIndex
    /\ partition_ind' = NextInd
    /\ UNCHANGED <<store, partition_config, page_size, state, pc, latest_milestone, partition_ids,
                   prev_last_partition_id, prev_paging_state, list_map, results,
                   depleted_partitions, pages, ret, snapshot, end_page>>
    /\ UNCHANGED <<given, token, cookies>>
    /\ UNCHANGED NotPage

\* The paging state of the cookie handed to every select.
FetchPagingState_All(pid) == prev_paging_state

\* The paging state the prefetch hands to the select on partition pid.
FetchPagingState(pid) ==
    IF IsSome(prev_last_partition_id) /\ Unwrap(prev_last_partition_id) = pid
    THEN prev_paging_state ELSE None

\* (partition_ind..partition_ind + fetch_size).filter_map(|ind| partition_ids.get(ind))
FetchInds == {i \in partition_ind..(partition_ind + fetch_size - 1) : i <= Len(partition_ids)}

FetchPids == {partition_ids[i][2] : i \in FetchInds}

\* The partition has no buffer yet: select on it and on the next one of the list.
Fetch ==
    /\ pc = "loop"
    /\ Cardinality(depleted_partitions) # Len(partition_ids)
    /\ cur_pid \notin depleted_partitions
    /\ cur_pid \notin DOMAIN list_map
    /\ \E cut \in [FetchInds -> Cuts] :
          list_map' = [pid \in (DOMAIN list_map) \cup {partition_ids[i][2] : i \in FetchInds} |->
                         IF \E i \in FetchInds : partition_ids[i][2] = pid
                         THEN LET i == CHOOSE j \in FetchInds : partition_ids[j][2] = pid
                              IN  Select(pid, latest_milestone, page_size,
                                         FetchPagingState(pid), cut[i])
                         ELSE list_map[pid]]
    /\ last_index_map' = WithCurIndex
    /\ pc' = "peel"
    /\ UNCHANGED <<store, partition_config, page_size, state, latest_milestone, partition_ids,
                   prev_last_partition_id, prev_paging_state, results,
                   depleted_partitions, partition_ind, pages, ret, snapshot, end_page>>
    /\ given' = [pid \in (DOMAIN given) \cup FetchPids |->
                    IF pid \in FetchPids THEN FetchPagingState(pid) ELSE given[pid]]
    /\ token' = [pid \in (DOMAIN token) \cup FetchPids |->
                    IF pid \in FetchPids THEN list_map'[pid].paging_state ELSE token[pid]]
    /\ UNCHANGED cookies
    /\ UNCHANGED NotPage

\* The partition already has a buffer.
Enter ==
    /\ pc = "loop"
    /\ Cardinality(depleted_partitions) # Len(partition_ids)
    /\ cur_pid \notin depleted_partitions
    /\ cur_pid \in DOMAIN list_map
    /\ last_index_map' = WithCurIndex
    /\ pc' = "peel"
    /\ UNCHANGED <<store, partition_config, page_size, state, latest_milestone, partition_ids,
                   prev_last_partition_id, prev_paging_state, list_map, results,
                   depleted_partitions, partition_ind, pages, ret, snapshot, end_page>>
    /\ UNCHANGED <<given, token, cookies>>
    /\ UNCHANGED NotPage

-----------------------------------------------------------------------------
(* page: the inner loop, pulling records from the front of the buffer *)

list == list_map[cur_pid]

SameChunk == chunk(list.rows[1].ms) = chunk(last_index_map[cur_pid])

PopFront == Put(list_map, cur_pid, [list EXCEPT !.rows = Tail(list.rows)])

\* results.len() < page_size: push the row and remember its ms.
PushNormal ==
    /\ pc = "peel"
    /\ list.rows # <<>> /\ SameChunk
    /\ Len(results) < page_size
    /\ results' = Append(results, list.rows[1])
    /\ last_index_map' = Put(last_index_map, cur_pid, list.rows[1].ms)
    /\ list_map' = PopFront
    /\ UNCHANGED <<store, partition_config, page_size, state, pc, latest_milestone, partition_ids,
                   prev_last_partition_id, prev_paging_state,
                   depleted_partitions, partition_ind, pages, ret, snapshot, end_page>>
    /\ UNCHANGED <<given, token, cookies>>
    /\ UNCHANGED NotPage

\* Mutant: the spill-over rule is left out.
SameMilestone_Never == FALSE

\* The guard of "Add more anyway if the milestone index is the same".
SameMilestone == last_index_map[cur_pid] = list.rows[1].ms

PushExtra ==
    /\ pc = "peel"
    /\ list.rows # <<>> /\ SameChunk
    /\ Len(results) >= page_size
    /\ SameMilestone
    /\ results' = Append(results, list.rows[1])
    /\ list_map' = PopFront
    /\ UNCHANGED <<store, partition_config, page_size, state, pc, latest_milestone, partition_ids,
                   prev_last_partition_id, prev_paging_state, last_index_map,
                   depleted_partitions, partition_ind, pages, ret, snapshot, end_page>>
    /\ UNCHANGED <<given, token, cookies>>
    /\ UNCHANGED NotPage

\* Mutant: the cookie names the ms of the last record pushed from the partition.
FinishedState_LastPushed ==
    Some([Unwrap(state) EXCEPT !.last_partition_id = Some(cur_pid),
                               !.last_milestone_index = Some(last_index_map[cur_pid])])

\* The cookie of "Finished a milestone".
FinishedState ==
    Some([Unwrap(state) EXCEPT !.last_partition_id = Some(cur_pid),
                               !.last_milestone_index = Some(list.rows[1].ms)])

FinishMilestone ==
    /\ pc = "peel"
    /\ list.rows # <<>> /\ SameChunk
    /\ Len(results) >= page_size
    /\ ~SameMilestone
    /\ Return("finished", FinishedState)
    /\ UNCHANGED <<store, partition_config, page_size, latest_milestone, partition_ids,
                   prev_last_partition_id, prev_paging_state, list_map, results,
                   depleted_partitions, last_index_map, partition_ind, snapshot>>
    /\ UNCHANGED <<given, token>>
    /\ UNCHANGED NotPage

\* Mutant: the boundary leaves last_index_map as it is.
ChunkBoundaryIndex_Kept == last_index_map

\* "Hit a chunk boundary": remember the row's ms and go to the next partition.
ChunkBoundaryIndex == Put(last_index_map, cur_pid, list.rows[1].ms)

ChunkBoundary ==
    /\ pc = "peel"
    /\ list.rows # <<>> /\ ~SameChunk
    /\ last_index_map' = ChunkBoundaryIndex
    /\ partition_ind' = NextInd
    /\ pc' = "loop"
    /\ UNCHANGED <<store, partition_config, page_size, state, latest_milestone, partition_ids,
                   prev_last_partition_id, prev_paging_state, list_map, results,
                   depleted_partitions, pages, ret, snapshot, end_page>>
    /\ UNCHANGED <<given, token, cookies>>
    /\ UNCHANGED NotPage

\* The cookie of "returning the paging state".
PagingState ==
    Some([Unwrap(state) EXCEPT !.paging_state = list.paging_state,
                               !.last_partition_id = Some(cur_pid),
                               !.last_milestone_index = Some(latest_milestone)])

ReturnPagingState ==
    /\ pc = "peel"
    /\ list.rows = <<>>
    /\ Len(results) >= page_size
    /\ Return("paging_state", PagingState)
    /\ list_map' = Put(list_map, cur_pid, [list EXCEPT !.paging_state = None])
    /\ UNCHANGED <<store, partition_config, page_size, latest_milestone, partition_ids,
                   prev_last_partition_id, prev_paging_state, results,
                   depleted_partitions, last_index_map, partition_ind, snapshot>>
    /\ UNCHANGED <<given, token>>
    /\ UNCHANGED NotPage

\* The buffer is empty and has a paging state: select the next rows.
Requery ==
    /\ pc = "peel"
    /\ list.rows = <<>>
    /\ Len(results) < page_size
    /\ IsSome(list.paging_state)
    /\ \E cut \in Cuts :
          list_map' = Put(list_map, cur_pid,
                          Select(cur_pid, latest_milestone, page_size - Len(results),
                                 list.paging_state, cut))
    /\ UNCHANGED <<store, partition_config, page_size, state, pc, latest_milestone, partition_ids,
                   prev_last_partition_id, prev_paging_state, results,
                   depleted_partitions, last_index_map, partition_ind, pages, ret,
                   snapshot, end_page>>
    /\ token' = Put(token, cur_pid, list_map'[cur_pid].paging_state)
    /\ UNCHANGED <<given, cookies>>
    /\ UNCHANGED NotPage

\* The buffer is empty and has no paging state: the partition is depleted.
Deplete ==
    /\ pc = "peel"
    /\ list.rows = <<>>
    /\ Len(results) < page_size
    /\ ~IsSome(list.paging_state)
    /\ depleted_partitions' = depleted_partitions \cup {cur_pid}
    /\ partition_ind' = NextInd
    /\ pc' = "loop"
    /\ UNCHANGED <<store, partition_config, page_size, state, latest_milestone, partition_ids,
                   prev_last_partition_id, prev_paging_state, list_map, results,
                   last_index_map, pages, ret, snapshot, end_page>>
    /\ UNCHANGED <<given, token, cookies>>
    /\ UNCHANGED NotPage

-----------------------------------------------------------------------------
(* The Syncer.  Its state is one record:                                   *)
(*   active      Option<[mode, start, end]>: Active::Complete(range) or    *)
(*               Active::FillGaps(range), range = start..end (end excluded) *)
(*   pending, highest, next, eof                       the fields           *)
(*   milestones_data   the min-heap, as an ascending sequence of ms         *)
(*   gaps, unlogged    sync_data: ascending sequences of <<start, end>>     *)
(*   requests    Solidify(ms) events sent and not yet answered              *)
(*   archiver    the ms of the MilestoneData events sent to the archiver    *)
(*   mark, range_start   history: length of archiver when the active range  *)
(*               was activated, and the start of that range                 *)
(*   first_sent  history: length of archiver when the bootstrap case of     *)
(*               handle_milestone_data had sent the first milestone data    *)
(*   tail        history: the active range was taken out of the open-ended  *)
(*               tail of sync_data                                          *)
(*   ask         history: the Ask handled by the last event ("Complete",    *)
(*               "FillGaps", "UpdateSyncData", or "refused"), "" otherwise  *)
(*   status      "running" | "stopped" (Shutdown) | "panicked" (todo!())    *)

solidifier_count == 2
MaxSyncMs == 4          \* the ranges of sync_data lie in 1..MaxSyncMs + 1
MaxBootMs == 5          \* the first milestone data have ms in 1..MaxBootMs

\* i32::MAX as u32: the end of the open-ended last range of sync_data.
TailEnd == 2147483647

\* BinaryHeap::push on the ascending sequence.
HeapPush(h, ms) ==
    LET k == Cardinality({i \in 1..Len(h) : h[i] <= ms})
    IN  SubSeq(h, 1, k) \o <<ms>> \o SubSeq(h, k + 1, Len(h))

\* sync_data.take_lowest_gap(): <<Option<range>, sync_data without it>>
take_lowest_gap(s) ==
    IF s.gaps = <<>> THEN <<None, s>>
    ELSE <<Some(Head(s.gaps)), [s EXCEPT !.gaps = Tail(s.gaps)]>>

\* sync_data.take_lowest_uncomplete(): the lower of the lowest gap and the
\* lowest synced-but-unlogged range.
take_lowest_uncomplete(s) ==
    IF s.gaps = <<>> /\ s.unlogged = <<>> THEN <<None, s>>
    ELSE IF s.unlogged = <<>> \/ (s.gaps # <<>> /\ Head(s.gaps)[1] < Head(s.unlogged)[1])
         THEN <<Some(Head(s.gaps)), [s EXCEPT !.gaps = Tail(s.gaps)]>>
         ELSE <<Some(Head(s.unlogged)), [s EXCEPT !.unlogged = Tail(s.unlogged)]>>

\* Every request goes to the first solidifier.
request_solidify_ToFirst(s, ms) ==
    [s EXCEPT !.requests = Append(@, [ms |-> ms, solidifier_id |-> 0]),
              !.pending = @ + 1]

\* request_solidify and pending += 1
request_solidify(s, ms) ==
    [s EXCEPT !.requests = Append(@, [ms |-> ms, solidifier_id |-> ms % solidifier_count]),
              !.pending = @ + 1]

\* self.active.replace(Active::..(gap)), after self.next = gap.start
Activate(s, mode, start, end) ==
    [s EXCEPT !.next = start,
              !.active = Some([mode |-> mode, start |-> start, end |-> end]),
              !.mark = Len(s.archiver),
              !.range_start = start,
              !.tail = FALSE]

ClampedEnd_Above(s) == s.highest + 1

\* gap.end = self.highest
ClampedEnd(s) == s.highest

RECURSIVE process_more(_)
RECURSIVE Dispatch(_, _)
RECURSIVE TakeRange(_, _)

trigger_process_more(s) == IF s.pending = 0 THEN process_more(s) ELSE s

\* complete (mode "Complete") and fill_gaps (mode "FillGaps")
TakeRange(s, mode) ==
    LET t == IF mode = "Complete" THEN take_lowest_uncomplete(s) ELSE take_lowest_gap(s)
        gap == t[1]
        s1 == t[2]
    IN  IF gap = None THEN s1
        ELSE IF Unwrap(gap)[2] # TailEnd
             THEN trigger_process_more(Activate(s1, mode, Unwrap(gap)[1], Unwrap(gap)[2]))
             ELSE IF s1.highest > Unwrap(gap)[1]
                  THEN trigger_process_more(
                           [Activate(s1, mode, Unwrap(gap)[1], ClampedEnd(s1))
                               EXCEPT !.tail = TRUE])
                  ELSE s1

complete(s) == TakeRange(s, "Complete")

fill_gaps(s) == TakeRange(s, "FillGaps")

Finished_Always(s) == TRUE

\* move to next gap (only if pending is zero)
Finished(s) == s.pending = 0

\* for _ in 0..self.solidifier_count { .. }, k rounds left
Dispatch(s, k) ==
    IF k = 0 THEN s
    ELSE LET a == Unwrap(s.active)
         IN  IF a.start < a.end
             THEN Dispatch(request_solidify(
                               [s EXCEPT !.active = Some([a EXCEPT !.start = a.start + 1])],
                               a.start),
                           k - 1)
             ELSE IF Finished(s)
                  THEN TakeRange([s EXCEPT !.active = None], a.mode)
                  ELSE s

process_more(s) ==
    IF IsSome(s.active) THEN Dispatch(s, solidifier_count)
    ELSE [s EXCEPT !.eof = TRUE]

Glitch_Never(nxt, ms_index) == FALSE

\* if next != ms_index
Glitch(nxt, ms_index) == nxt # ms_index

\* The bootstrap case: the rest of the heap, local next = nxt.
RECURSIVE PushTheRest(_, _)
PushTheRest(s, nxt) ==
    IF s.milestones_data = <<>> THEN s
    ELSE LET ms_index == Head(s.milestones_data)
         IN  PushTheRest([s EXCEPT !.milestones_data = Tail(@),
                                   !.highest = IF Glitch(nxt, ms_index) THEN ms_index ELSE @,
                                   !.archiver = Append(@, ms_index)],
                         ms_index + 1)

FirstMilestonesData(s) ==
    LET first == Head(s.milestones_data)
        sent == PushTheRest([s EXCEPT !.milestones_data = Tail(@),
                                      !.highest = first,
                                      !.archiver = Append(@, first)],
                            first + 1)
    IN  [sent EXCEPT !.first_sent = Len(sent.archiver)]

\* Sends the top of the heap, whatever its ms.
SendNextExpected_Any(s) ==
    IF s.milestones_data # <<>>
    THEN [s EXCEPT !.milestones_data = Tail(@),
                   !.archiver = Append(@, Head(s.milestones_data)),
                   !.next = Head(s.milestones_data) + 1]
    ELSE s

\* The steady-state case: send while the top of the heap is the next expected.
RECURSIVE SendNextExpected(_)
SendNextExpected(s) ==
    IF s.milestones_data # <<>> /\ Head(s.milestones_data) = s.next
    THEN SendNextExpected([s EXCEPT !.milestones_data = Tail(@),
                                    !.archiver = Append(@, s.next),
                                    !.next = @ + 1])
    ELSE s

handle_milestone_data(s, ms) ==
    LET s1 == [s EXCEPT !.pending = @ - 1,
                        !.milestones_data = HeapPush(@, ms)]
    IN  trigger_process_more(
            IF s1.highest = 0 /\ s1.pending = 0 THEN FirstMilestonesData(s1)
            ELSE IF s1.highest # 0 THEN SendNextExpected(s1)
            ELSE s1)

\* ---- the events of the event loop ----

SRunning == syncer.status = "running"

\* The syncer after an event: ask names the Ask just handled, "" after any
\* other event.
Handled(s, ask) == [s EXCEPT !.ask = ask]

AskKinds == {"Complete", "FillGaps", "UpdateSyncData"}

Accepts_Always(s) == TRUE

\* if let None = self.active
Accepts(s) == s.active = None

SProcess ==
    /\ SRunning
    /\ syncer' = Handled(process_more(syncer), "")
    /\ UNCHANGED <<boot, NotSyncer>>

SAskComplete ==
    /\ SRunning /\ Accepts(syncer)
    /\ syncer' = Handled(complete(syncer), "Complete")
    /\ UNCHANGED <<boot, NotSyncer>>

SAskFillGaps ==
    /\ SRunning /\ Accepts(syncer)
    /\ syncer' = Handled(fill_gaps(syncer), "FillGaps")
    /\ UNCHANGED <<boot, NotSyncer>>

\* todo!("Updating the sync data is not implemented yet")
SAskUpdateSyncData ==
    /\ SRunning /\ Accepts(syncer)
    /\ syncer' = Handled([syncer EXCEPT !.status = "panicked"], "UpdateSyncData")
    /\ UNCHANGED <<boot, NotSyncer>>

\* "Cannot accept Ask request ... while processing", for any of the three Asks
SAskRefused ==
    /\ SRunning /\ ~Accepts(syncer)
    /\ syncer' = Handled(syncer, "refused")
    /\ UNCHANGED <<boot, NotSyncer>>

\* One of the first milestone data, which the syncer did not request.
SFirstMilestoneData ==
    /\ SRunning
    /\ \E ms \in boot :
          /\ boot' = boot \ {ms}
          /\ syncer' = Handled(handle_milestone_data(syncer, ms), "")
    /\ UNCHANGED NotSyncer

\* The answer to a Solidify request, in any order.
SMilestoneData ==
    /\ SRunning
    /\ \E i \in 1..Len(syncer.requests) :
          syncer' = Handled(handle_milestone_data(
                               [syncer EXCEPT !.requests =
                                    SubSeq(@, 1, i - 1) \o SubSeq(@, i + 1, Len(@))],
                               syncer.requests[i].ms), "")
    /\ UNCHANGED <<boot, NotSyncer>>

SShutdown ==
    /\ SRunning
    /\ syncer' = Handled([syncer EXCEPT !.status = "stopped"], "")
    /\ UNCHANGED <<boot, NotSyncer>>

\* sync_data: ascending, pairwise disjoint ranges; the last gap may be open-ended.
SyncRanges == {r \in (1..MaxSyncMs) \X (2..(MaxSyncMs + 1)) : r[1] < r[2]}

Disjoint(r, q) == r[2] <= q[1] \/ q[2] <= r[1]

SyncDatas ==
    {d \in [gaps : {<<>>} \cup {<<g>> : g \in SyncRanges}
                          \cup {<<g, <<t, TailEnd>>>> : g \in SyncRanges, t \in 1..(MaxSyncMs + 1)}
                          \cup {<<<<t, TailEnd>>>> : t \in 1..(MaxSyncMs + 1)},
            unlogged : {<<>>} \cup {<<u>> : u \in SyncRanges}] :
        /\ \A i \in 1..Len(d.gaps) : \A j \in 1..Len(d.unlogged) :
              Disjoint(d.gaps[i], d.unlogged[j])
        /\ Len(d.gaps) = 2 => d.gaps[1][2] <= d.gaps[2][1]}

SyncerOf(d) ==
    [active |-> None, pending |-> solidifier_count, highest |-> 0, next |-> 0,
     eof |-> FALSE, milestones_data |-> <<>>, gaps |-> d.gaps,
     unlogged |-> d.unlogged, requests |-> <<>>, archiver |-> <<>>,
     mark |-> 0, range_start |-> 0, first_sent |-> 0, tail |-> FALSE, ask |-> "",
     status |-> "running"]

SInit ==
    /\ boot \in {b \in SUBSET (1..MaxBootMs) : Cardinality(b) = solidifier_count}
    /\ syncer \in {SyncerOf(d) : d \in SyncDatas}

\* The syncer at rest, for the specifications of the other parts.
SIdle ==
    /\ boot = {}
    /\ syncer = SyncerOf([gaps |-> <<>>, unlogged |-> <<>>])

SNext ==
    \/ SProcess
    \/ SAskComplete
    \/ SAskFillGaps
    \/ SAskUpdateSyncData
    \/ SAskRefused
    \/ SFirstMilestoneData
    \/ SMilestoneData
    \/ SShutdown

-----------------------------------------------------------------------------
(* The Collector.  Its state is one record:                                *)
(*   lru_msg       sequence of [id, est_ms], least recently used first     *)
(*   lru_msg_ref   sequence of [id, ref_ms, state], least recently used    *)
(*                 first                                                   *)
(*   est_ms                                                                *)
(*   rows          the rows written by the insert requests sent so far:    *)
(*                   <<"messages", message_id, "message">>                 *)
(*                   <<"messages", message_id, "metadata">>                *)
(*                   <<"messages", message_id, "joined">>                  *)
(*                   <<"parents", parent_id, partition_id, ms,             *)
(*                     message_id, inclusion_state>>                       *)
(*                   <<"hashed_index", index, partition_id, ms,            *)
(*                     message_id, inclusion_state>>                       *)
(*   inserts       history: the number of insert requests sent             *)
(*   status        "running" | "panicked" (todo!())                        *)

MaxMsgIds == 3          \* message ids 1..MaxMsgIds
MaxRefMs == 2           \* referenced_by_milestone_index in 1..MaxRefMs
MaxEvents == 4          \* events handed to the collector in one run
LruCapacity == 1        \* capacity of lru_msg and of lru_msg_ref

MsgIds == 1..MaxMsgIds

PayloadKinds == <<"indexation", "transaction", "none">>

\* message.payload(): the kind of payload of the message with this id
payload(id) == PayloadKinds[((id - 1) % Len(PayloadKinds)) + 1]

InclusionStates == <<Some("included"), None>>

\* metadata.ledger_inclusion_state of the message with this id
ledger_inclusion_state_of(id) == InclusionStates[((id - 1) % Len(InclusionStates)) + 1]

\* message.parents(), and metadata.parent_message_ids: the id's one parent
Parents(id) == <<(id % MaxMsgIds) + 1>>

\* indexation.hash()
IndexOf(id) == id

\* ---- the LRU cache ----

LruHas(lru, id) == \E i \in 1..Len(lru) : lru[i].id = id

LruEntry(lru, id) == lru[CHOOSE i \in 1..Len(lru) : lru[i].id = id]

LruWithout(lru, id) == SelectSeq(lru, LAMBDA e : e.id # id)

\* LruCache::get / get_mut: a hit makes the entry the most recently used
LruGet(lru, id) ==
    IF LruHas(lru, id) THEN Append(LruWithout(lru, id), LruEntry(lru, id)) ELSE lru

\* LruCache::put: the least recently used entry goes when the cache is full
LruPut(lru, e) ==
    LET l == Append(LruWithout(lru, e.id), e)
    IN  IF Len(l) > LruCapacity THEN Tail(l) ELSE l

\* ---- the inserts ----

\* self.insert(keyspace, key, value)
insert(c, row) == [c EXCEPT !.rows = @ \cup {row}, !.inserts = @ + 1]

RECURSIVE insert_parents(_, _, _, _, _)
insert_parents(c, message_id, parents, milestone_index, inclusion_state) ==
    IF parents = <<>> THEN c
    ELSE insert_parents(
             insert(c, <<"parents", Head(parents), PartitionOf(milestone_index),
                         milestone_index, message_id, inclusion_state>>),
             message_id, Tail(parents), milestone_index, inclusion_state)

insert_hashed_index(c, message_id, hashed_index, milestone_index, inclusion_state) ==
    insert(c, <<"hashed_index", hashed_index, PartitionOf(milestone_index),
                milestone_index, message_id, inclusion_state>>)

\* Payload::Transaction is todo!()
insert_payload(c, message_id, milestone_index, inclusion_state) ==
    CASE payload(message_id) = "indexation" ->
             insert_hashed_index(c, message_id, IndexOf(message_id), milestone_index,
                                 inclusion_state)
      [] payload(message_id) = "transaction" -> [c EXCEPT !.status = "panicked"]
      [] OTHER -> c

insert_message(c, message_id) ==
    LET hit == LruHas(c.lru_msg_ref, message_id)
        meta == LruEntry(c.lru_msg_ref, message_id)
        ledger_inclusion_state == IF hit THEN meta.state ELSE None
        c1 == IF hit
              THEN insert([c EXCEPT !.lru_msg_ref = LruGet(@, message_id),
                                    !.est_ms = meta.ref_ms],
                          <<"messages", message_id, "joined">>)
              ELSE insert(c, <<"messages", message_id, "message">>)
        est_milestone_index == c1.est_ms + 1
    IN  insert_payload(
            insert_parents(c1, message_id, Parents(message_id), est_milestone_index,
                           ledger_inclusion_state),
            message_id, est_milestone_index, ledger_inclusion_state)

insert_message_metadata(c, metadata) ==
    insert_parents(insert(c, <<"messages", metadata.id, "metadata">>),
                   metadata.id, Parents(metadata.id), c.est_ms, metadata.state)

insert_message_with_metadata(c, message_id, metadata) ==
    insert_payload(
        insert_parents(insert(c, <<"messages", message_id, "joined">>),
                       message_id, Parents(message_id), c.est_ms, metadata.state),
        message_id, c.est_ms, metadata.state)

\* ---- the events of the event loop ----

\* if let None = self.lru_msg.get(&message_id)
MessageIsNew(c, message_id) == ~LruHas(c.lru_msg, message_id)

\* The check of lru_msg_ref left out.
MetadataIsNew_Always(c, message_id) == TRUE

\* if let None = self.lru_msg_ref.get(&message_id)
MetadataIsNew(c, message_id) == ~LruHas(c.lru_msg_ref, message_id)

\* CollectorEvent::Message(message_id, message)
OnMessage(c, message_id) ==
    LET c0 == [c EXCEPT !.lru_msg = LruGet(@, message_id)]
    IN  IF MessageIsNew(c, message_id)
        THEN LET c1 == insert_message(c0, message_id)
             IN  IF c1.status = "panicked" THEN c1
                 ELSE [c1 EXCEPT !.lru_msg =
                           LruPut(@, [id |-> message_id, est_ms |-> c1.est_ms])]
        ELSE c0

\* CollectorEvent::MessageReferenced(metadata)
OnMessageReferenced(c, metadata) ==
    LET message_id == metadata.id
        c0 == [c EXCEPT !.est_ms = metadata.ref_ms,
                        !.lru_msg_ref = LruGet(@, message_id)]
        cached == LruHas(c0.lru_msg, message_id)
        c1 == [c0 EXCEPT !.lru_msg = LruGet(@, message_id)]
        stored == IF cached
                  THEN IF LruEntry(c0.lru_msg, message_id).est_ms # metadata.ref_ms
                       THEN [c1 EXCEPT !.status = "panicked"]
                       ELSE insert_message_with_metadata(c1, message_id, metadata)
                  ELSE insert_message_metadata(c1, metadata)
    IN  IF MetadataIsNew(c, message_id)
        THEN IF stored.status = "panicked" THEN stored
             ELSE [stored EXCEPT !.lru_msg_ref = LruPut(@, metadata)]
        ELSE c0

MetadataOf(id) == [id |-> id, ref_ms |-> ref_of[id], state |-> ledger_inclusion_state_of(id)]

RowsOf(id, rows) ==
    {r \in rows : IF r[1] = "messages" THEN r[2] = id ELSE r[5] = id}

\* history: the id's rows, once both of its events have been processed
Done(c, dlv) ==
    [id \in MsgIds |->
        IF done[id] = None /\ c.status = "running"
           /\ <<"Message", id>> \in dlv /\ <<"MessageReferenced", id>> \in dlv
        THEN Some(RowsOf(id, c.rows)) ELSE done[id]]

CRunning == collector.status = "running" /\ last.n < MaxEvents

Message ==
    /\ CRunning
    /\ \E id \in MsgIds :
          /\ collector' = OnMessage(collector, id)
          /\ last' = [kind |-> "Message", id |-> id, n |-> last.n + 1,
                      hit |-> LruHas(collector.lru_msg, id)]
          /\ delivered' = delivered \cup {<<"Message", id>>}
          /\ done' = Done(collector', delivered')
    /\ UNCHANGED <<ref_of, NotCollector>>

MessageReferenced ==
    /\ CRunning
    /\ \E id \in MsgIds :
          /\ collector' = OnMessageReferenced(collector, MetadataOf(id))
          /\ last' = [kind |-> "MessageReferenced", id |-> id, n |-> last.n + 1,
                      hit |-> LruHas(collector.lru_msg_ref, id)]
          /\ delivered' = delivered \cup {<<"MessageReferenced", id>>}
          /\ done' = Done(collector', delivered')
    /\ UNCHANGED <<ref_of, NotCollector>>

CollectorNew ==
    [lru_msg |-> <<>>, lru_msg_ref |-> <<>>, est_ms |-> 0, rows |-> {},
     inserts |-> 0, status |-> "running"]

CStart ==
    /\ collector = CollectorNew
    /\ last = [kind |-> "none", id |-> 0, n |-> 0, hit |-> FALSE]
    /\ delivered = {}
    /\ done = [id \in MsgIds |-> None]

CInit ==
    /\ CStart
    /\ ref_of \in [MsgIds -> 1..MaxRefMs]

\* The collector at rest, for the specifications of the other parts.
CIdle ==
    /\ CStart
    /\ ref_of = [id \in MsgIds |-> 1]

CNext ==
    \/ Message
    \/ MessageReferenced

-----------------------------------------------------------------------------
(* The HTTP handlers.  One request is handled: api holds                    *)
(*   endpoint   "none" before the request, then the handler's name          *)
(*   request    the parameters and what the storage holds for them          *)
(*   queries    the storage queries the handler made                        *)
(*   error      the ListenerError kind of the answer, "" for Ok             *)
(*   response   the fields of the ListenerResponse the claims are about     *)

MaxUnlocks == 2         \* unlock blocks of an output
MaxApiMsgs == 2         \* message ids 1..MaxApiMsgs referring to an output

ApiIdle == [endpoint |-> "none", request |-> <<>>, queries |-> {}, failed |-> {},
            error |-> "", response |-> <<>>, headers |-> {}]

\* Response::set_raw_header: the header of that name is replaced
set_raw_header(headers, name, value) ==
    {h \in headers : h[1] # name} \cup {<<name, value>>}

on_response_Skip(headers) == headers

\* CORS::on_response
on_response(headers) ==
    LET h1 == set_raw_header(headers, "Access-Control-Allow-Origin", "*")
        h2 == set_raw_header(h1, "Access-Control-Allow-Methods", "GET, OPTIONS")
        h3 == set_raw_header(h2, "Access-Control-Allow-Headers", "*")
    IN  set_raw_header(h3, "Access-Control-Allow-Credentials", "true")

\* Responder for ListenerError and for ListenerResponse: the headers of a
\* JSON body
respond_to == {<<"Content-Type", "application/json">>}

\* The response of a handler that returns a ListenerResult, after the
\* fairing attached to the server.  failed is the set of selects the storage
\* has failed (history).
Answer(endpoint, request, queries, error, response) ==
    [endpoint |-> endpoint, request |-> request, queries |-> queries,
     failed |-> {}, error |-> error, response |-> response,
     headers |-> on_response(respond_to)]

WithFailed(answer, failed) == [answer EXCEPT !.failed = failed]

\* The storage failing a select: the worker's error, as the test of
\* get_message sees it without a ring.
WorkerError == "Worker NoRing"

\* What a select gives through query: a row, no row, or the worker's error.
SelectOutcomes == {"Ok", "NoResults", "Err"}

\* Option<LedgerInclusionState>
LedgerInclusionStates == {None, Some("Included"), Some("Conflicting")}

Included == Some("Included")

\* OutputRes::unlock_blocks: UnlockRes { message_id, block, inclusion_state }
UnlockBlocks ==
    UNION {[1..n -> [message_id : 1..MaxApiMsgs, inclusion_state : LedgerInclusionStates]] :
               n \in 0..MaxUnlocks}

\* What the metadata query of a message gives: Ok(Some(metadata)) with the
\* metadata's ledger_inclusion_state, Ok(None), or Err.
MetadataResults == [kind : {"Some"}, ledger_inclusion_state : LedgerInclusionStates]
                       \cup {[kind |-> "None"], [kind |-> "Err"]}

\* for UnlockRes {..} in output_data.unlock_blocks.iter(): from block i on
RECURSIVE ScanUnlocks(_, _, _)
ScanUnlocks(blocks, i, query_message_ids) ==
    IF i > Len(blocks) THEN [is_spent |-> FALSE, query_message_ids |-> query_message_ids]
    ELSE IF blocks[i].inclusion_state = Included
         THEN [is_spent |-> TRUE, query_message_ids |-> query_message_ids]
         ELSE ScanUnlocks(blocks, i + 1, query_message_ids \cup {blocks[i].message_id})

\* join_all(queries) ... .filter_map(|res| res.ok()).flatten().any(..)
AnyIncluded(ids, metadata) ==
    \E id \in ids : /\ metadata[id].kind = "Some"
                    /\ metadata[id].ledger_inclusion_state = Included

\* let is_spent = ..: <<is_spent, the message ids whose metadata is queried>>
IsSpent(blocks, metadata) ==
    IF blocks = <<>> THEN [is_spent |-> FALSE, query_message_ids |-> {}]
    ELSE LET scan == ScanUnlocks(blocks, 1, {})
         IN  IF scan.query_message_ids # {}
             THEN [is_spent |-> AnyIncluded(scan.query_message_ids, metadata),
                   query_message_ids |-> scan.query_message_ids]
             ELSE scan

\* get_output, for a known keyspace, an output id that parses and an output
\* the storage holds
OutputFound(endpoint, blocks, metadata) ==
    LET spent == IsSpent(blocks, metadata)
    IN  WithFailed(
            Answer(endpoint,
                   [keyspace_known |-> TRUE, parses |-> TRUE,
                    unlock_blocks |-> blocks, metadata |-> metadata],
                   {<<"output">>} \cup
                       {<<"metadata", id>> : id \in spent.query_message_ids},
                   "", [is_spent |-> spent.is_spent]),
            {<<"metadata", id>> : id \in
                {i \in spent.query_message_ids : metadata[i].kind = "Err"}})

GetOutput ==
    /\ api.endpoint = "none"
    /\ \E blocks \in UnlockBlocks, metadata \in [1..MaxApiMsgs -> MetadataResults] :
          api' = OutputFound("get_output", blocks, metadata)
    /\ UNCHANGED NotApi

\* query: .get_local().await.map_err(|e| e.into()).and_then(|res|
\* res.ok_or_else(|| NoResults)), of the select q
query(q, outcome) ==
    [error |-> CASE outcome = "Ok" -> ""
                 [] outcome = "NoResults" -> "NoResults"
                 [] outcome = "Err" -> "Other",
     failed |-> IF outcome = "Err" THEN {q} ELSE {},
     response |-> IF outcome = "Err" THEN [message |-> WorkerError] ELSE <<>>]

\* A handler returning the error of its select q (the ? after query)
QueryError(endpoint, request, queries, q, outcome) ==
    LET res == query(q, outcome)
    IN  WithFailed(Answer(endpoint, request, queries, res.error, res.response),
                   res.failed)

\* get_output refusing the request, or not finding the output
GetOutputError ==
    /\ api.endpoint = "none"
    /\ \E keyspace_known \in BOOLEAN, output_id_parses \in BOOLEAN,
          output \in {"NoResults", "Err"} :
          LET request == [keyspace_known |-> keyspace_known,
                          parses |-> output_id_parses]
          IN  api' = IF ~keyspace_known
                     THEN Answer("get_output", request, {}, "InvalidKeyspace", <<>>)
                     ELSE IF ~output_id_parses
                     THEN Answer("get_output", request, {}, "BadParse", <<>>)
                     ELSE QueryError("get_output", request, {<<"output">>},
                                     <<"output">>, output)
    /\ UNCHANGED NotApi

\* get_output_by_transaction_id: the transaction id and the index are made
\* an output id before get_output looks at the keyspace; the output id that
\* get_output parses is the one just printed
GetOutputByTransactionId ==
    /\ api.endpoint = "none"
    /\ \/ \E keyspace_known \in BOOLEAN, transaction_id_parses \in BOOLEAN,
             output \in {"NoResults", "Err"} :
             LET request == [keyspace_known |-> keyspace_known,
                             parses |-> transaction_id_parses]
             IN  api' = IF ~transaction_id_parses
                        THEN Answer("get_output_by_transaction_id", request, {},
                                    "BadParse", <<>>)
                        ELSE IF ~keyspace_known
                        THEN Answer("get_output_by_transaction_id", request, {},
                                    "InvalidKeyspace", <<>>)
                        ELSE QueryError("get_output_by_transaction_id", request,
                                        {<<"output">>}, <<"output">>, output)
       \/ \E blocks \in UnlockBlocks, metadata \in [1..MaxApiMsgs -> MetadataResults] :
             api' = OutputFound("get_output_by_transaction_id", blocks, metadata)
    /\ UNCHANGED NotApi

\* message.into_inner().try_into().map_err(|e| anyhow!(e).into())
ConversionError == "conversion"

\* query::<Bee<Message>>(..).await.and_then(|message| ..try_into()..)
MessageAnswer(endpoint, request, queries, message, converts) ==
    IF message # "Ok"
    THEN QueryError(endpoint, request, queries, <<"message">>, message)
    ELSE IF ~converts
    THEN Answer(endpoint, request, queries, "Other", [message |-> ConversionError])
    ELSE Answer(endpoint, request, queries, "", [kind |-> "Message"])

\* get_message
GetMessage ==
    /\ api.endpoint = "none"
    /\ \E keyspace_known \in BOOLEAN, message_id_parses \in BOOLEAN,
          message \in SelectOutcomes, converts \in BOOLEAN :
          LET request == [keyspace_known |-> keyspace_known,
                          parses |-> message_id_parses]
          IN  api' = IF ~keyspace_known
                     THEN Answer("get_message", request, {}, "InvalidKeyspace", <<>>)
                     ELSE IF ~message_id_parses
                     THEN Answer("get_message", request, {}, "BadParse", <<>>)
                     ELSE MessageAnswer("get_message", request, {<<"message">>},
                                        message, converts)
    /\ UNCHANGED NotApi

\* get_message_metadata: the row selected is an Option<MessageMetadata>
GetMessageMetadata ==
    /\ api.endpoint = "none"
    /\ \E keyspace_known \in BOOLEAN, message_id_parses \in BOOLEAN,
          metadata \in SelectOutcomes \cup {"None"} :
          LET request == [keyspace_known |-> keyspace_known,
                          parses |-> message_id_parses]
              queries == {<<"metadata">>}
          IN  api' = IF ~keyspace_known
                     THEN Answer("get_message_metadata", request, {},
                                 "InvalidKeyspace", <<>>)
                     ELSE IF ~message_id_parses
                     THEN Answer("get_message_metadata", request, {}, "BadParse", <<>>)
                     ELSE IF metadata = "None"
                     THEN Answer("get_message_metadata", request, queries,
                                 "NotFound", <<>>)
                     ELSE IF metadata = "Ok"
                     THEN Answer("get_message_metadata", request, queries, "",
                                 [kind |-> "MessageMetadata"])
                     ELSE QueryError("get_message_metadata", request, queries,
                                     <<"metadata">>, metadata)
    /\ UNCHANGED NotApi

\* message.payload(): a transaction, another payload, or none
Payloads == {"Transaction", "Indexation", "None"}

\* get_transaction_for_message
GetTransactionForMessage ==
    /\ api.endpoint = "none"
    /\ \E keyspace_known \in BOOLEAN, message_id_parses \in BOOLEAN,
          message \in SelectOutcomes, payload_kind \in Payloads,
          transaction \in SelectOutcomes :
          LET request == [keyspace_known |-> keyspace_known,
                          parses |-> message_id_parses]
              both == {<<"message">>, <<"transaction">>}
          IN  api' = IF ~keyspace_known
                     THEN Answer("get_transaction_for_message", request, {},
                                 "InvalidKeyspace", <<>>)
                     ELSE IF ~message_id_parses
                     THEN Answer("get_transaction_for_message", request, {},
                                 "BadParse", <<>>)
                     ELSE IF message # "Ok"
                     THEN QueryError("get_transaction_for_message", request,
                                     {<<"message">>}, <<"message">>, message)
                     ELSE IF payload_kind # "Transaction"
                     THEN Answer("get_transaction_for_message", request,
                                 {<<"message">>}, "NoResults", <<>>)
                     ELSE IF transaction # "Ok"
                     THEN QueryError("get_transaction_for_message", request, both,
                                     <<"transaction">>, transaction)
                     ELSE Answer("get_transaction_for_message", request, both, "",
                                 [kind |-> "Transaction"])
    /\ UNCHANGED NotApi

\* TransactionId::from_str(..).map_err(|e| ListenerError::Other(anyhow!(e)))
ParseError == "parse"

\* get_transaction_included_message
GetTransactionIncludedMessage ==
    /\ api.endpoint = "none"
    /\ \E keyspace_known \in BOOLEAN, transaction_id_parses \in BOOLEAN,
          included \in SelectOutcomes \cup {"None"}, message \in SelectOutcomes,
          converts \in BOOLEAN :
          LET request == [keyspace_known |-> keyspace_known,
                          parses |-> transaction_id_parses]
          IN  api' = IF ~keyspace_known
                     THEN Answer("get_transaction_included_message", request, {},
                                 "InvalidKeyspace", <<>>)
                     ELSE IF ~transaction_id_parses
                     THEN Answer("get_transaction_included_message", request, {},
                                 "Other", [message |-> ParseError])
                     ELSE IF included = "None"
                     THEN Answer("get_transaction_included_message", request,
                                 {<<"included">>}, "NoResults", <<>>)
                     ELSE IF included # "Ok"
                     THEN QueryError("get_transaction_included_message", request,
                                     {<<"included">>}, <<"included">>, included)
                     ELSE MessageAnswer("get_transaction_included_message", request,
                                        {<<"included">>, <<"message">>}, message,
                                        converts)
    /\ UNCHANGED NotApi

\* get_milestone: the index is parsed by the router
GetMilestone ==
    /\ api.endpoint = "none"
    /\ \E keyspace_known \in BOOLEAN, milestone \in SelectOutcomes :
          LET request == [keyspace_known |-> keyspace_known, parses |-> TRUE]
          IN  api' = IF ~keyspace_known
                     THEN Answer("get_milestone", request, {}, "InvalidKeyspace", <<>>)
                     ELSE IF milestone = "Ok"
                     THEN Answer("get_milestone", request, {<<"milestone">>}, "",
                                 [kind |-> "Milestone"])
                     ELSE QueryError("get_milestone", request, {<<"milestone">>},
                                     <<"milestone">>, milestone)
    /\ UNCHANGED NotApi

\* options: any path under /api; the unit value responds with no body and
\* no content type
Options ==
    /\ api.endpoint = "none"
    /\ api' = [ApiIdle EXCEPT !.endpoint = "options", !.headers = on_response({})]
    /\ UNCHANGED NotApi

\* catchers: not_found for a request no route takes, internal_error
Catch ==
    /\ api.endpoint = "none"
    /\ \E error \in {"NotFound", "Other"} :
          api' = Answer("catch", <<>>, {}, error,
                        IF error = "Other" THEN [message |-> "Internal server error!"]
                        ELSE <<>>)
    /\ UNCHANGED NotApi

\* ---- the parameters of the paged endpoints ----

MaxCookieIds == 1       \* partition_ids entries of the cookies offered
MaxIndexLen == 131      \* characters of the index parameters offered
MaxTagLen == 64         \* get_message_by_index: greatest tag length accepted

HexDigits == <<"0", "1", "2", "3", "4", "5", "6", "7", "8", "9",
               "a", "b", "c", "d", "e", "f">>

UpperHexDigits == <<"A", "B", "C", "D", "E", "F">>

HexValues ==
    [ch \in {HexDigits[i] : i \in 1..16} \cup {UpperHexDigits[i] : i \in 1..6} |->
        IF \E i \in 1..16 : HexDigits[i] = ch
        THEN (CHOOSE i \in 1..16 : HexDigits[i] = ch) - 1
        ELSE (CHOOSE i \in 1..6 : UpperHexDigits[i] = ch) + 9]

\* The value of a hexadecimal digit, -1 for any other character.
HexValue(ch) == IF ch \in DOMAIN HexValues THEN HexValues[ch] ELSE -1

\* hex::encode: two lower-case digits per byte
hex_encode(bytes) ==
    [i \in 1..(2 * Len(bytes)) |->
        LET b == bytes[(i + 1) \div 2]
        IN  HexDigits[(IF i % 2 = 1 THEN b \div 16 ELSE b % 16) + 1]]

\* A decoder that drops the last character of a string of odd length.
from_hex_Lenient(str) ==
    IF \E i \in 1..Len(str) : HexValue(str[i]) = -1
    THEN [ok |-> FALSE, bytes |-> <<>>]
    ELSE [ok |-> TRUE,
          bytes |-> [i \in 1..(Len(str) \div 2) |->
                        16 * HexValue(str[2 * i - 1]) + HexValue(str[2 * i])]]

\* hex::decode and Vec::<u8>::from_hex: an odd length or a character that is
\* no hexadecimal digit is an error
from_hex(str) ==
    IF Len(str) % 2 = 1 \/ \E i \in 1..Len(str) : HexValue(str[i]) = -1
    THEN [ok |-> FALSE, bytes |-> <<>>]
    ELSE [ok |-> TRUE,
          bytes |-> [i \in 1..(Len(str) \div 2) |->
                        16 * HexValue(str[2 * i - 1]) + HexValue(str[2 * i])]]

\* The characters of the index parameters offered and their UTF-8 bytes: a
\* hexadecimal digit, another ASCII character, a character of two bytes.
IndexChars == {"a", "z", "U+00E9"}

utf8_bytes(ch) ==
    IF ch = "a" THEN <<97>> ELSE IF ch = "z" THEN <<122>> ELSE <<195, 169>>

\* String::as_bytes
RECURSIVE as_bytes(_)
as_bytes(str) ==
    IF str = <<>> THEN <<>>
    ELSE IF Len(str) = 1 THEN utf8_bytes(str[1])
         ELSE LET half == Len(str) \div 2
              IN  as_bytes(SubSeq(str, 1, half)) \o as_bytes(SubSeq(str, half + 1, Len(str)))

\* The binary form of the cookie: fixed-width little-endian integers, one tag
\* byte for an Option, a u64 length in front of a Vec.
RECURSIVE le_bytes(_, _)
le_bytes(v, n) == IF n = 0 THEN <<>> ELSE <<v % 256>> \o le_bytes(v \div 256, n - 1)

option_bytes(o, n) == IF o = None THEN <<0>> ELSE <<1>> \o le_bytes(Unwrap(o), n)

RECURSIVE pairs_bytes(_)
pairs_bytes(pids) ==
    IF pids = <<>> THEN <<>>
    ELSE le_bytes(Head(pids)[1], 4) \o le_bytes(Head(pids)[2], 2) \o pairs_bytes(Tail(pids))

\* bincode::serialize(&state); paging_state is the Vec<u8> of the storage
serialize(sd) ==
    option_bytes(sd.last_partition_id, 2)
        \o option_bytes(sd.last_milestone_index, 4)
        \o (IF sd.paging_state = None THEN <<0>>
            ELSE <<1>> \o le_bytes(Len(Unwrap(sd.paging_state)), 8)
                       \o Unwrap(sd.paging_state))
        \o le_bytes(Len(sd.partition_ids), 8) \o pairs_bytes(sd.partition_ids)

Failed == [ok |-> FALSE, value |-> <<>>, next |-> 0]

Read(value, next) == [ok |-> TRUE, value |-> value, next |-> next]

\* The little-endian integer of the n bytes from position at, -1 when the
\* bytes end before it; a length of 256 or more is longer than any input.
RECURSIVE le_value(_, _, _)
le_value(b, at, n) ==
    IF n = 0 THEN 0
    ELSE IF at > Len(b) THEN -1
         ELSE LET rest == le_value(b, at + 1, n - 1)
              IN  IF rest = -1 THEN -1 ELSE b[at] + 256 * rest

read_len(b, at) ==
    IF at + 7 > Len(b) THEN -1
    ELSE IF \E i \in (at + 1)..(at + 7) : b[i] # 0 THEN -1
         ELSE b[at]

read_option(b, at, n) ==
    IF at > Len(b) \/ b[at] > 1 THEN Failed
    ELSE IF b[at] = 0 THEN Read(None, at + 1)
         ELSE IF at + n > Len(b) THEN Failed
              ELSE Read(Some(le_value(b, at + 1, n)), at + 1 + n)

read_option_bytes(b, at) ==
    IF at > Len(b) \/ b[at] > 1 THEN Failed
    ELSE IF b[at] = 0 THEN Read(None, at + 1)
         ELSE LET n == read_len(b, at + 1)
              IN  IF n = -1 \/ at + 8 + n > Len(b) THEN Failed
                  ELSE Read(Some(SubSeq(b, at + 9, at + 8 + n)), at + 9 + n)

read_pairs(b, at) ==
    LET n == read_len(b, at)
    IN  IF n = -1 \/ at + 7 + 6 * n > Len(b) THEN Failed
        ELSE Read([i \in 1..n |-> <<le_value(b, at + 8 + 6 * (i - 1), 4),
                                    le_value(b, at + 12 + 6 * (i - 1), 2)>>],
                  at + 8 + 6 * n)

\* bincode::deserialize::<StateData>(&v): bytes after the value are allowed
deserialize(b) ==
    LET lp == read_option(b, 1, 2)
        lm == IF lp.ok THEN read_option(b, lp.next, 4) ELSE Failed
        ps == IF lm.ok THEN read_option_bytes(b, lm.next) ELSE Failed
        pids == IF ps.ok THEN read_pairs(b, ps.next) ELSE Failed
    IN  IF pids.ok
        THEN [ok |-> TRUE, value |-> StateData(lp.value, lm.value, ps.value, pids.value)]
        ELSE [ok |-> FALSE, value |-> <<>>]

\* state.map(|state| hex::decode(state)..and_then(bincode::deserialize..))
\*      .transpose()?
decode_state_Other(param) ==
    IF param = None THEN [error |-> "", state |-> None]
    ELSE LET v == from_hex(Unwrap(param))
         IN  IF ~v.ok THEN [error |-> "InvalidState", state |-> None]
             ELSE LET d == deserialize(v.bytes)
                  IN  IF ~d.ok THEN [error |-> "Other", state |-> None]
                      ELSE [error |-> "", state |-> Some(d.value)]

decode_state(param) ==
    IF param = None THEN [error |-> "", state |-> None]
    ELSE LET v == from_hex(Unwrap(param))
         IN  IF ~v.ok THEN [error |-> "InvalidState", state |-> None]
             ELSE LET d == deserialize(v.bytes)
                  IN  IF ~d.ok THEN [error |-> "InvalidState", state |-> None]
                      ELSE [error |-> "", state |-> Some(d.value)]

\* What the storage gives to the queries of page.
PageOutcomes == {"Ok", "NoResults", "Other"}

\* page, as far as its first query: the check of partition_ids, then the
\* hints query of a first page or the first select of a resumed one.
page(st, outcome) ==
    IF IsSome(st) /\ Unwrap(st).partition_ids = <<>>
    THEN [error |-> "InvalidState", queries |-> {}, failed |-> {}, response |-> <<>>]
    ELSE LET queries == {IF st = None THEN <<"hints">> ELSE <<"select">>}
         IN  [error |-> IF outcome = "Ok" THEN "" ELSE outcome,
              queries |-> queries,
              failed |-> IF outcome = "Other" THEN queries ELSE {},
              response |-> IF outcome = "Other" THEN [message |-> WorkerError]
                           ELSE <<>>]

\* The cookies offered: serialized states, cut short, with a character
\* replaced, with bytes appended, and the strings of the scenarios.
CookiePartitionIds ==
    {[i \in 1..n |-> <<n - i + 1, (i - 1) % partition_count>>] : n \in 0..MaxCookieIds}

CookieStates ==
    {StateData(lp, lm, ps, pids) :
        lp \in {None, Some(1)}, lm \in {None, Some(1)}, ps \in {None, Some(<<1>>)},
        pids \in CookiePartitionIds}

Cookies == {hex_encode(serialize(sd)) : sd \in CookieStates}

StateStrings ==
    Cookies
        \cup UNION {{SubSeq(str, 1, k) : k \in 0..(Len(str) - 1)} : str \in Cookies}
        \cup UNION {{[str EXCEPT ![i] = ch] : i \in 1..Len(str), ch \in {"2", "z"}} :
                       str \in Cookies}
        \cup {str \o <<"0", "0">> : str \in Cookies}
        \cup {<<"z", "z">>}

StateParams == {None} \cup {Some(str) : str \in StateStrings}

\* get_message_children
ChildrenAnswer(keyspace_known, message_id_parses, state_param, st, outcome) ==
    LET request == [keyspace_known |-> keyspace_known,
                    parses |-> message_id_parses, state |-> state_param]
        paged == page(st.state, outcome)
    IN  IF ~keyspace_known
        THEN Answer("get_message_children", request, {}, "InvalidKeyspace", <<>>)
        ELSE IF ~message_id_parses
        THEN Answer("get_message_children", request, {}, "BadParse", <<>>)
        ELSE IF st.error # ""
        THEN Answer("get_message_children", request, {}, st.error, <<>>)
        ELSE WithFailed(Answer("get_message_children", request, paged.queries,
                               paged.error, paged.response), paged.failed)

GetMessageChildren ==
    /\ api.endpoint = "none"
    /\ \E state_param \in StateParams :
          LET st == decode_state(state_param)
          IN  \E keyspace_known \in BOOLEAN, message_id_parses \in BOOLEAN,
                 outcome \in PageOutcomes :
                 api' = ChildrenAnswer(keyspace_known, message_id_parses, state_param,
                                       st, outcome)
    /\ UNCHANGED NotApi

\* get_ed25519_outputs and get_transactions_for_address: the state is decoded
\* before the address is parsed
AddressAnswer(endpoint, keyspace_known, address_parses, state_param, st, outcome) ==
    LET request == [keyspace_known |-> keyspace_known,
                    parses |-> address_parses, state |-> state_param]
        paged == page(st.state, outcome)
    IN  IF ~keyspace_known
        THEN Answer(endpoint, request, {}, "InvalidKeyspace", <<>>)
        ELSE IF st.error # ""
        THEN Answer(endpoint, request, {}, st.error, <<>>)
        ELSE IF ~address_parses
        THEN Answer(endpoint, request, {}, "BadParse", <<>>)
        ELSE WithFailed(Answer(endpoint, request, paged.queries, paged.error,
                               paged.response), paged.failed)

GetEd25519Outputs ==
    /\ api.endpoint = "none"
    /\ \E state_param \in StateParams :
          LET st == decode_state(state_param)
          IN  \E keyspace_known \in BOOLEAN, address_parses \in BOOLEAN,
                 outcome \in PageOutcomes :
                 api' = AddressAnswer("get_ed25519_outputs", keyspace_known,
                                      address_parses, state_param, st, outcome)
    /\ UNCHANGED NotApi

GetTransactionsForAddress ==
    /\ api.endpoint = "none"
    /\ \E state_param \in StateParams :
          LET st == decode_state(state_param)
          IN  \E keyspace_known \in BOOLEAN, address_parses \in BOOLEAN,
                 outcome \in PageOutcomes :
                 api' = AddressAnswer("get_transactions_for_address", keyspace_known,
                                      address_parses, state_param, st, outcome)
    /\ UNCHANGED NotApi

\* The index parameters offered: one character repeated, the last character
\* possibly another one.
IndexStrings ==
    {[i \in 1..n |-> IF i = n THEN c2 ELSE c1] :
        n \in 0..MaxIndexLen, c1 \in IndexChars, c2 \in IndexChars}

Utf8Params == {None, Some(TRUE), Some(FALSE)}

\* if let Some(true) = utf8 { index = hex::encode(index) }
TagString(index, utf8) == IF utf8 = Some(TRUE) THEN hex_encode(as_bytes(index)) ELSE index

TooLarge_Inclusive(bytes) == Len(bytes) >= MaxTagLen

\* Vec::<u8>::from_hex(index)?.len() > 64
TooLarge(bytes) == Len(bytes) > MaxTagLen

\* get_message_by_index, with the index after the utf8 step, its bytes and
\* the decoded state
ByIndexAnswer(request, keyspace_known, index, tag, st, outcome) ==
    LET paged == page(st.state, outcome)
    IN  IF ~keyspace_known
        THEN Answer("get_message_by_index", request, {}, "InvalidKeyspace", <<>>)
        ELSE IF ~tag.ok
        THEN Answer("get_message_by_index", request, {}, "InvalidHex", <<>>)
        ELSE IF TooLarge(tag.bytes)
        THEN Answer("get_message_by_index", request, {}, "IndexTooLarge", <<>>)
        ELSE IF st.error # ""
        THEN Answer("get_message_by_index", request, {}, st.error, <<>>)
        ELSE WithFailed(Answer("get_message_by_index", request, paged.queries,
                               paged.error,
                               IF paged.error = "" THEN [index |-> index]
                               ELSE paged.response), paged.failed)

ByIndex(index_params, state_params) ==
    \E index_param \in index_params, utf8 \in Utf8Params :
        LET index == TagString(index_param, utf8)
            tag == from_hex(index)
        IN  \E state_param \in state_params :
                LET st == decode_state(state_param)
                IN  \E keyspace_known \in BOOLEAN, outcome \in PageOutcomes :
                        api' = ByIndexAnswer([keyspace_known |-> keyspace_known,
                                              parses |-> TRUE, state |-> state_param,
                                              index |-> index_param, utf8 |-> utf8],
                                             keyspace_known, index, tag, st, outcome)

\* get_message_by_index: any index parameter, with a few state parameters
GetMessageByIndex ==
    /\ api.endpoint = "none"
    /\ ByIndex(IndexStrings, {None, Some(<<"z", "z">>)})
    /\ UNCHANGED NotApi

\* get_message_by_index: any state parameter, with a few index parameters
GetMessageByIndexResumed ==
    /\ api.endpoint = "none"
    /\ ByIndex({<<"a", "a">>, <<"z">>}, StateParams)
    /\ UNCHANGED NotApi

\* The handlers at rest, for the specifications of the other parts.
AIdle == api = ApiIdle

ANext ==
    \/ GetOutput
    \/ GetOutputError
    \/ GetOutputByTransactionId
    \/ GetMessage
    \/ GetMessageMetadata
    \/ GetTransactionForMessage
    \/ GetTransactionIncludedMessage
    \/ GetMilestone
    \/ Options
    \/ Catch
    \/ GetMessageChildren
    \/ GetMessageByIndex
    \/ GetMessageByIndexResumed
    \/ GetEd25519Outputs
    \/ GetTransactionsForAddress

-----------------------------------------------------------------------------
(* The transaction data columns (Packable).  codec holds                    *)
(*   op       "none", then "pack" (a value packed and unpacked again) or    *)
(*            "unpack" (bytes unpacked)                                     *)
(*   type     the type packed or unpacked                                   *)
(*   value    the value packed                                              *)
(*   bytes    the bytes written by pack, or the bytes handed to unpack      *)
(*   result   what unpack gives: [ok, value, next], next the position       *)
(*            after the bytes read                                          *)
(* The fields come from the bee crates: an id (TransactionId, the milestone *)
(* id of a TreasuryInput) is one byte here, an UnlockBlock and an Output    *)
(* are a kind byte 0 or 1 and one byte of content.                          *)

MaxId == 1              \* ids 0..MaxId
MaxBytes == 4           \* bytes handed to unpack
MaxByte == 3            \* their values 0..MaxByte

Ids == 0..MaxId

Indexes == {0, 1, 256}

\* TransactionId, MilestoneId
pack_id(id) == <<id>>

unpack_id(b, at) == IF at > Len(b) THEN Failed ELSE Read(b[at], at + 1)

\* u16
pack_u16(v) == le_bytes(v, 2)

unpack_u16(b, at) == IF at + 1 > Len(b) THEN Failed ELSE Read(le_value(b, at, 2), at + 2)

\* UnlockBlock, Output: a kind and its content
Kinded == [kind : {0, 1}, content : Ids]

pack_kinded(v) == <<v.kind, v.content>>

unpack_kinded(b, at) ==
    IF at + 1 > Len(b) \/ b[at] > 1 THEN Failed
    ELSE Read([kind |-> b[at], content |-> b[at + 1]], at + 2)

\* UtxoInput: an output id
UtxoInputs == [id : Ids, index : Indexes]

pack_utxo_input(v) == pack_id(v.id) \o pack_u16(v.index)

unpack_utxo_input(b, at) ==
    LET id == unpack_id(b, at)
        index == IF id.ok THEN unpack_u16(b, id.next) ELSE Failed
    IN  IF index.ok THEN Read([id |-> id.value, index |-> index.value], index.next)
        ELSE Failed

UnlockDatas == [input_tx_id : Ids, input_index : Indexes, unlock_block : Kinded]

pack_UnlockData_IndexFirst(v) ==
    pack_u16(v.input_index) \o pack_id(v.input_tx_id) \o pack_kinded(v.unlock_block)

\* impl Packable for UnlockData
pack_UnlockData(v) ==
    pack_id(v.input_tx_id) \o pack_u16(v.input_index) \o pack_kinded(v.unlock_block)

unpack_UnlockData(b, at) ==
    LET input_tx_id == unpack_id(b, at)
        input_index == IF input_tx_id.ok THEN unpack_u16(b, input_tx_id.next) ELSE Failed
        unlock_block == IF input_index.ok THEN unpack_kinded(b, input_index.next) ELSE Failed
    IN  IF unlock_block.ok
        THEN Read([input_tx_id |-> input_tx_id.value, input_index |-> input_index.value,
                   unlock_block |-> unlock_block.value], unlock_block.next)
        ELSE Failed

InputDatas ==
    [variant : {"Utxo"}, utxo_input : UtxoInputs, unlock_block : Kinded]
        \cup [variant : {"Treasury"}, treasury_input : Ids]

\* impl Packable for InputData
pack_InputData(v) ==
    IF v.variant = "Utxo"
    THEN <<0>> \o pack_utxo_input(v.utxo_input) \o pack_kinded(v.unlock_block)
    ELSE <<1>> \o pack_id(v.treasury_input)

unpack_InputData(b, at) ==
    IF at > Len(b) THEN Failed
    ELSE IF b[at] = 0
    THEN LET utxo_input == unpack_utxo_input(b, at + 1)
             unlock_block == IF utxo_input.ok THEN unpack_kinded(b, utxo_input.next)
                             ELSE Failed
         IN  IF unlock_block.ok
             THEN Read([variant |-> "Utxo", utxo_input |-> utxo_input.value,
                        unlock_block |-> unlock_block.value], unlock_block.next)
             ELSE Failed
    ELSE IF b[at] = 1
    THEN LET treasury_input == unpack_id(b, at + 1)
         IN  IF treasury_input.ok
             THEN Read([variant |-> "Treasury", treasury_input |-> treasury_input.value],
                       treasury_input.next)
             ELSE Failed
    ELSE Failed

TransactionDatas ==
    [variant : {"Input"}, input_data : InputDatas]
        \cup [variant : {"Output"}, output : Kinded]
        \cup [variant : {"Unlock"}, unlock_data : UnlockDatas]

\* impl Packable for TransactionData
pack_TransactionData(v) ==
    IF v.variant = "Input" THEN <<0>> \o pack_InputData(v.input_data)
    ELSE IF v.variant = "Output" THEN <<1>> \o pack_kinded(v.output)
    ELSE <<2>> \o pack_UnlockData(v.unlock_data)

unpack_TransactionData(b, at) ==
    IF at > Len(b) THEN Failed
    ELSE IF b[at] = 0
    THEN LET input_data == unpack_InputData(b, at + 1)
         IN  IF input_data.ok
             THEN Read([variant |-> "Input", input_data |-> input_data.value],
                       input_data.next)
             ELSE Failed
    ELSE IF b[at] = 1
    THEN LET output == unpack_kinded(b, at + 1)
         IN  IF output.ok
             THEN Read([variant |-> "Output", output |-> output.value], output.next)
             ELSE Failed
    ELSE IF b[at] = 2
    THEN LET unlock_data == unpack_UnlockData(b, at + 1)
         IN  IF unlock_data.ok
             THEN Read([variant |-> "Unlock", unlock_data |-> unlock_data.value],
                       unlock_data.next)
             ELSE Failed
    ELSE Failed

PackableTypes == {"TransactionData", "InputData", "UnlockData"}

ValuesOf(type) ==
    IF type = "TransactionData" THEN TransactionDatas
    ELSE IF type = "InputData" THEN InputDatas ELSE UnlockDatas

pack(type, v) ==
    IF type = "TransactionData" THEN pack_TransactionData(v)
    ELSE IF type = "InputData" THEN pack_InputData(v) ELSE pack_UnlockData(v)

\* T::unpack(&mut Cursor::new(slice))
unpack(type, b) ==
    IF type = "TransactionData" THEN unpack_TransactionData(b, 1)
    ELSE IF type = "InputData" THEN unpack_InputData(b, 1) ELSE unpack_UnlockData(b, 1)

CodecIdle == [op |-> "none", type |-> "", value |-> <<>>, bytes |-> <<>>,
              result |-> Failed]

\* A value is packed and the bytes are unpacked again.
PackUnpack ==
    /\ codec.op = "none"
    /\ \E type \in PackableTypes : \E v \in ValuesOf(type) :
          LET b == pack(type, v)
          IN  codec' = [op |-> "pack", type |-> type, value |-> v, bytes |-> b,
                        result |-> unpack(type, b)]
    /\ UNCHANGED NotCodec

\* The bytes of a column are unpacked.
Unpack ==
    /\ codec.op = "none"
    /\ \E type \in PackableTypes, n \in 0..MaxBytes : \E b \in [1..n -> 0..MaxByte] :
          codec' = [op |-> "unpack", type |-> type, value |-> <<>>, bytes |-> b,
                    result |-> unpack(type, b)]
    /\ UNCHANGED NotCodec

\* The columns at rest, for the specifications of the other parts.
KIdle == codec = CodecIdle

KNext ==
    \/ PackUnpack
    \/ Unpack

-----------------------------------------------------------------------------
(* The paging session *)

PInit ==
    /\ store \in {f \in [0..MaxMs -> 0..MaxPerMs] : SumTo(f, MaxMs) <= MaxRecords}
    /\ partition_config = PartitionConfig
    /\ page_size \in 1..MaxPageSize
    /\ state = None
    /\ pc = "idle"
    /\ latest_milestone = 0
    /\ partition_ids = <<>>
    /\ prev_last_partition_id = None
    /\ prev_paging_state = None
    /\ list_map = <<>>
    /\ results = <<>>
    /\ depleted_partitions = {}
    /\ last_index_map = <<>>
    /\ partition_ind = 1
    /\ pages = <<>>
    /\ ret = "none"
    /\ snapshot = 0
    /\ end_page = 0
    /\ given = <<>>
    /\ token = <<>>
    /\ cookies = <<>>
    /\ given = <<>>
    /\ token = <<>>
    /\ cookies = <<>>

PNext ==
    \/ PageNoResults
    \/ PageFirst
    \/ PageResume
    \/ AllDepleted
    \/ SkipDepleted
    \/ Fetch
    \/ Enter
    \/ PushNormal
    \/ PushExtra
    \/ FinishMilestone
    \/ ChunkBoundary
    \/ ReturnPagingState
    \/ Requery
    \/ Deplete

\* The paging engine at rest, for the specifications of the other parts.
PIdle ==
    /\ store = [m \in 0..MaxMs |-> 0]
    /\ partition_config = PartitionConfig
    /\ page_size = 1
    /\ state = None
    /\ pc = "idle"
    /\ latest_milestone = 0
    /\ partition_ids = <<>>
    /\ prev_last_partition_id = None
    /\ prev_paging_state = None
    /\ list_map = <<>>
    /\ results = <<>>
    /\ depleted_partitions = {}
    /\ last_index_map = <<>>
    /\ partition_ind = 1
    /\ pages = <<>>
    /\ ret = "none"
    /\ snapshot = 0
    /\ end_page = 0
    /\ given = <<>>
    /\ token = <<>>
    /\ cookies = <<>>
    /\ given = <<>>
    /\ token = <<>>
    /\ cookies = <<>>

InitPage == PInit /\ SIdle /\ CIdle /\ AIdle /\ KIdle
NextPage == PNext
SpecPage == InitPage /\ [][NextPage]_vars

\* A call of page with a cookie of a client's making, and the pages that
\* follow it.  The task running page is scheduled as long as it can take a
\* step.
MaxClientIds == 2       \* entries of the partition list of a client's cookie
MaxClientRecords == 3   \* records stored under the key

ClientEntries == {<<MaxMs, pid>> : pid \in 0..(partition_count - 1)}

ClientLists == UNION {[1..n -> ClientEntries] : n \in 1..MaxClientIds}

ClientCookies ==
    {StateData(lp, lm, None, pids) :
        lp \in {None, Some(0)},
        lm \in {None, Some(MaxMs \div 2)},
        pids \in ClientLists}

InitCookie ==
    /\ store \in {f \in [0..MaxMs -> 0..MaxPerMs] : SumTo(f, MaxMs) <= MaxClientRecords}
    /\ partition_config = PartitionConfig
    /\ page_size \in 1..MaxPageSize
    /\ state \in {Some(st) : st \in ClientCookies}
    /\ pc = "idle"
    /\ latest_milestone = 0
    /\ partition_ids = <<>>
    /\ prev_last_partition_id = None
    /\ prev_paging_state = None
    /\ list_map = <<>>
    /\ results = <<>>
    /\ depleted_partitions = {}
    /\ last_index_map = <<>>
    /\ partition_ind = 1
    /\ pages = <<>>
    /\ ret = "none"
    /\ snapshot = 0
    /\ end_page = 0
    /\ given = <<>>
    /\ token = <<>>
    /\ cookies = <<>>
    /\ SIdle /\ CIdle /\ AIdle /\ KIdle

NextCookie ==
    \/ PageCookie
    \/ PageResume
    \/ AllDepleted
    \/ SkipDepleted
    \/ Fetch
    \/ Enter
    \/ PushNormal
    \/ PushExtra
    \/ FinishMilestone
    \/ ChunkBoundary
    \/ ReturnPagingState
    \/ Requery
    \/ Deplete

SpecCookie == InitCookie /\ [][NextCookie]_vars /\ WF_vars(NextCookie)

\* Sessions over a longer range of milestones, with one record for an ms
\* at most: a partition holds records of two chunks that are not neighbours
\* and the other partition records above and below them.
LongRecords == 5        \* at most this many records are stored under the key
LongPageSize == 4       \* page_size ranges over 1..LongPageSize

InitLong ==
    /\ store \in {f \in [0..LongMs -> {0, 1}] : SumTo(f, LongMs) <= LongRecords}
    /\ partition_config = PartitionConfig
    /\ page_size \in 1..LongPageSize
    /\ state = None
    /\ pc = "idle"
    /\ latest_milestone = 0
    /\ partition_ids = <<>>
    /\ prev_last_partition_id = None
    /\ prev_paging_state = None
    /\ list_map = <<>>
    /\ results = <<>>
    /\ depleted_partitions = {}
    /\ last_index_map = <<>>
    /\ partition_ind = 1
    /\ pages = <<>>
    /\ ret = "none"
    /\ snapshot = 0
    /\ end_page = 0
    /\ given = <<>>
    /\ token = <<>>
    /\ cookies = <<>>
    /\ SIdle /\ CIdle /\ AIdle /\ KIdle

NextLong == PNext

SpecLong == InitLong /\ [][NextLong]_vars

\* Sessions of a node of either PartitionConfig, the node's own or the one
\* with WideCount partitions of WideChunk milestones, at most one record for
\* an ms.
WidePageSize == 2       \* page_size ranges over 1..WidePageSize

InitWide ==
    /\ store \in [0..MaxMs -> {0, 1}]
    /\ partition_config \in {PartitionConfig, WideConfig}
    /\ page_size \in 1..WidePageSize
    /\ state = None
    /\ pc = "idle"
    /\ latest_milestone = 0
    /\ partition_ids = <<>>
    /\ prev_last_partition_id = None
    /\ prev_paging_state = None
    /\ list_map = <<>>
    /\ results = <<>>
    /\ depleted_partitions = {}
    /\ last_index_map = <<>>
    /\ partition_ind = 1
    /\ pages = <<>>
    /\ ret = "none"
    /\ snapshot = 0
    /\ end_page = 0
    /\ given = <<>>
    /\ token = <<>>
    /\ cookies = <<>>
    /\ SIdle /\ CIdle /\ AIdle /\ KIdle

NextWide == PNext

SpecWide == InitWide /\ [][NextWide]_vars

InitSyncer == SInit /\ PIdle /\ CIdle /\ AIdle /\ KIdle
NextSyncer == SNext
SpecSyncer == InitSyncer /\ [][NextSyncer]_vars

\* The syncer with solidifiers that answer: the first milestone data and the
\* answer to every Solidify request are eventually delivered to the event
\* loop.  The first milestone data are the latest milestones, and sync_data
\* has no gap: it holds at most one synced range that is not logged.
InitSyncerLive ==
    /\ boot = (MaxBootMs - solidifier_count + 1)..MaxBootMs
    /\ syncer \in {SyncerOf(d) : d \in {x \in SyncDatas : x.gaps = <<>>}}
    /\ PIdle /\ CIdle /\ AIdle /\ KIdle

SpecSyncerLive ==
    /\ InitSyncerLive
    /\ [][NextSyncer]_vars
    /\ WF_vars(SFirstMilestoneData)
    /\ WF_vars(SMilestoneData)

InitCollector == CInit /\ PIdle /\ SIdle /\ AIdle /\ KIdle
NextCollector == CNext
SpecCollector == InitCollector /\ [][NextCollector]_vars

InitApi == AIdle /\ PIdle /\ SIdle /\ CIdle /\ KIdle
NextApi == ANext
SpecApi == InitApi /\ [][NextApi]_vars

InitCodec == KIdle /\ PIdle /\ SIdle /\ CIdle /\ AIdle
NextCodec == KNext
SpecCodec == InitCodec /\ [][NextCodec]_vars

-----------------------------------------------------------------------------
(* Properties of the paging session *)

Returned == pc = "returned" /\ ret # "NoResults"

\* The pages of the session: it ends with the first page that found every
\* partition depleted (page hands back a cookie even then, see C5, and a call
\* made with that cookie starts over).
SessionPages == IF end_page = 0 THEN pages ELSE SubSeq(pages, 1, end_page)

\* All records returned in the session, in order.
Emitted == Flatten(SessionPages)

LastPage == pages[Len(pages)]

Last(s) == s[Len(s)]

\* The records the session is to return: those of the snapshot taken on the first page.
SnapshotRecords == {r \in Records : r.ms <= snapshot}

Descending(s) == \A i \in 1..(Len(s) - 1) : s[i].ms >= s[i + 1].ms

\* C1: across the pages of one session no stored record is returned more than once.
C1_NoDuplicates ==
    \A i \in 1..Len(Emitted) : \A j \in 1..Len(Emitted) :
        i # j => Emitted[i] # Emitted[j]

\* C2: when the session ends (every partition depleted) the pages together are
\* exactly the records of the snapshot: each of them was returned by some page.
C2_Coverage ==
    end_page # 0 => Range(Emitted) = SnapshotRecords

C4_Ordering ==
    /\ \A n \in 1..Len(SessionPages) : Descending(SessionPages[n])
    /\ \A n \in 1..(Len(SessionPages) - 1) :
          (SessionPages[n] # <<>> /\ SessionPages[n + 1] # <<>>)
              => SessionPages[n + 1][1].ms <= Last(SessionPages[n]).ms

\* C5: when page ends because every partition is depleted, the state passed back is None.
C5_DepletedGivesNone ==
    (pc = "returned" /\ ret = "depleted") => state = None

CookieIn ==
    LET n == IF pc = "returned" /\ ret # "NoResults" THEN Len(cookies) - 1 ELSE Len(cookies)
    IN  IF n >= 1 THEN cookies[n] ELSE None

\* C11: a returned cookie with a paging_state names last_partition_id, and
\* the paging_state is the token returned by the last select on that
\* partition; the prefetch select on the partition named by the cookie
\* passed in gets that cookie's paging_state, the prefetch select on every
\* other partition gets none.
C11_PagingStateBelongsToPartition ==
    /\ (Returned /\ IsSome(state) /\ IsSome(Unwrap(state).paging_state)) =>
          /\ IsSome(Unwrap(state).last_partition_id)
          /\ Unwrap(Unwrap(state).last_partition_id) \in DOMAIN token
          /\ Unwrap(state).paging_state = token[Unwrap(Unwrap(state).last_partition_id)]
    /\ \A pid \in DOMAIN given :
          given[pid] = IF IsSome(CookieIn) /\ Unwrap(CookieIn).last_partition_id = Some(pid)
                       THEN Unwrap(CookieIn).paging_state ELSE None

\* A resumed call whose prefetch handed the cookie's paging state to one
\* partition and none to another.
C11_Witness ==
    /\ \E pid \in DOMAIN given : IsSome(given[pid])
    /\ \E pid \in DOMAIN given : given[pid] = None

\* C12: every cookie returned during the session holds the partition list
\* the first page established, entries and order, and the list is never
\* empty; the state a running call of page works on holds it too.
C12_PartitionIdsImmutable ==
    /\ \A n \in 1..Len(cookies) :
          /\ IsSome(cookies[n])
          /\ Unwrap(cookies[n]).partition_ids # <<>>
          /\ Unwrap(cookies[n]).partition_ids = Unwrap(cookies[1]).partition_ids
    /\ (cookies # <<>> /\ pc \in {"loop", "peel"}) =>
          /\ Unwrap(state).partition_ids = Unwrap(cookies[1]).partition_ids
          /\ partition_ids = Unwrap(cookies[1]).partition_ids

\* Three cookies returned, over a list of more than one partition.
C12_Witness ==
    /\ Len(cookies) = 3
    /\ Len(Unwrap(cookies[3]).partition_ids) > 1

\* b is a cyclic shift of a: the same entries in the same cyclic order.
IsCyclicShift(a, b) ==
    /\ Len(a) = Len(b)
    /\ \E k \in 0..(Len(a) - 1) :
          \A i \in 1..Len(a) : b[i] = a[((i - 1 + k) % Len(a)) + 1]

\* A call of page with state = None
FirstPageCall == pc = "idle" /\ pc' # "idle"

Front(pid) == list_map[pid].rows[1]

\* The front row of the buffer of pid has the ms last_index_map holds for pid.
Parked(pid) ==
    /\ pid \in DOMAIN list_map /\ pid \in DOMAIN last_index_map
    /\ list_map[pid].rows # <<>>
    /\ last_index_map[pid] = Front(pid).ms

\* The inner loop looks at a front row of another chunk than last_index_map's.
AtChunkBoundary ==
    /\ pc = "peel"
    /\ list_map[cur_pid].rows # <<>>
    /\ chunk(Front(cur_pid).ms) # chunk(last_index_map[cur_pid])

ResumedAfterFinish == pc \in {"loop", "peel"} /\ ret = "finished" /\ IsSome(CookieIn)

StoppedPartition == Unwrap(Unwrap(CookieIn).last_partition_id)

StoppedMs == Unwrap(Unwrap(CookieIn).last_milestone_index)

\* C30: a page that stops with results.len() >= page_size in front of a row
\* r of partition p whose ms differs from last_index_map[p] returns the
\* cookie last_partition_id = p, last_milestone_index = r.ms, no
\* paging_state; the page resumed from that cookie starts with r, and emits
\* the rows of p up to its chunk boundary before a row of another partition.
C30_ResumeStartsWithFrontRow ==
    [][/\ (pc = "peel" /\ pc' = "returned" /\ ret' = "finished") =>
             /\ Unwrap(state').last_partition_id = Some(cur_pid)
             /\ Unwrap(state').last_milestone_index = Some(Front(cur_pid).ms)
             /\ Unwrap(state').paging_state = None
       /\ (ResumedAfterFinish /\ results = <<>> /\ results' # <<>>) =>
             /\ results'[1].pid = StoppedPartition
             /\ results'[1].ms = StoppedMs
       /\ (ResumedAfterFinish /\ Len(results') > Len(results)
              /\ results'[Len(results')].pid # StoppedPartition) =>
             \A q \in Records :
                 (/\ q.pid = StoppedPartition
                  /\ q.ms <= StoppedMs
                  /\ chunk(q.ms) = chunk(StoppedMs)) => q \in Range(results)]_vars

\* C28: the main loop of page terminates for every non-empty partition list,
\* from the hints table or from a client's cookie, and every page_size: a
\* call of page that has entered the loop returns.
C28_PageTerminates == (pc \in {"loop", "peel"}) ~> (pc = "returned")

------------------------------------------------------------------------\* C35: the ms of the first entry of the stored partition list is the
\* latest_milestone of the first page, and a page resumed from a cookie
\* without last_milestone_index bounds its selects by it.
C35_FirstEntryIsSnapshot ==
    [][/\ IsSome(state') => Unwrap(state').partition_ids[1][1] = snapshot'
       /\ (/\ pc = "returned" /\ pc' = "loop"
           /\ Unwrap(state).last_milestone_index = None) =>
              latest_milestone' = snapshot]_vars

\* A page resumed from the cookie of a depleted session (no
\* last_milestone_index) of several partitions has made its selects.
C35_Witness ==
    /\ pc \in {"loop", "peel"}
    /\ pages # <<>>
    /\ Unwrap(cookies[Len(cookies)]).last_milestone_index = None
    /\ Len(partition_ids) > 1
    /\ partition_ids[1][1] > partition_ids[2][1]
    /\ latest_milestone = snapshot
    /\ list_map # <<>>

\* C34: the number of records of a page never exceeds the max_results
\* reported with it, 2 * page_size.
C34_CountWithinMaxResults ==
    \A i \in 1..Len(pages) : Len(pages[i]) <= 2 * page_size

\* The i-th state passed back carries a continuation mark.
Marked(i) == IsSome(cookies[i]) /\ IsSome(Unwrap(cookies[i]).last_partition_id)

\* C39: a page with fewer than page_size records is returned only by the
\* exit that found every partition depleted (a return before that has
\* results.len() >= page_size), and a state passed back with
\* last_partition_id set comes with a page of at least page_size records.
C39_ShortPageIsLast ==
    /\ pc = "returned" /\ ret \in {"finished", "paging_state"}
           => Len(pages[Len(pages)]) >= page_size
    /\ \A i \in 1..Len(pages) :
           /\ Len(pages[i]) < page_size => end_page # 0 /\ i >= end_page /\ ~Marked(i)
           /\ Marked(i) => Len(pages[i]) >= page_size

\* A resumed call has found every partition depleted with a short page, after
\* a page that was returned with a continuation mark.
C39_Witness ==
    /\ pc = "returned" /\ ret = "depleted"
    /\ Len(pages) > 1
    /\ Len(pages[Len(pages)]) < page_size
    /\ Marked(Len(pages) - 1)
    /\ Len(pages[Len(pages) - 1]) >= page_size

-----
(* Properties of the syncer *)

\* The ms values sent to the archiver since the active range was activated.
RangeLog == SubSeq(syncer.archiver, syncer.mark + 1, Len(syncer.archiver))

SteadyLog ==
    SubSeq(syncer.archiver,
           (IF syncer.first_sent > syncer.mark THEN syncer.first_sent ELSE syncer.mark) + 1,
           Len(syncer.archiver))

C18_AskRefusedWhileActive ==
    [][/\ (IsSome(syncer.active) /\ syncer'.ask # "") =>
              syncer' = [syncer EXCEPT !.ask = "refused"]
       /\ syncer'.ask \in AskKinds => syncer.active = None]_vars

C18_Witness ==
    /\ syncer.ask = "refused"
    /\ IsSome(syncer.active)
    /\ syncer.requests # <<>>
    /\ syncer.gaps # <<>>

\* The range an accepted Ask of the kind takes out of sync_data.
Picked(s, kind) ==
    IF kind = "Complete" THEN take_lowest_uncomplete(s)[1] ELSE take_lowest_gap(s)[1]

\* The step handles an accepted Ask(Complete) or Ask(FillGaps) that picks a range.
AskPicks ==
    /\ syncer.active = None
    /\ syncer'.ask \in {"Complete", "FillGaps"}
    /\ IsSome(Picked(syncer, syncer'.ask))

ActivatedWith(start, end) ==
    /\ IsSome(syncer'.active)
    /\ Unwrap(syncer'.active).mode = syncer'.ask
    /\ syncer'.range_start = start
    /\ syncer'.next = start
    /\ Unwrap(syncer'.active).end = end

Refused ==
    /\ syncer'.active = None
    /\ syncer'.requests = syncer.requests
    /\ syncer'.pending = syncer.pending

\* The ms of the Solidify requests sent by the step.
Solidified ==
    {syncer'.requests[i].ms : i \in 1..Len(syncer'.requests)}
        \ {syncer.requests[i].ms : i \in 1..Len(syncer.requests)}

\* end = u32::MAX = 2 * (i32::MAX as u32) + 1, above every 32-bit signed
\* integer: no end of sync_data here equals it.
IsU32Max(end) == end % 2 = 1 /\ end \div 2 = TailEnd

\* C19 as stated: the open-ended tail is the range whose end is u32::MAX; a
\* range with any other end is activated unchanged.
C19_TailIsU32Max ==
    [][AskPicks =>
          LET r == Unwrap(Picked(syncer, syncer'.ask))
          IN  IF IsU32Max(r[2])
              THEN IF syncer.highest > r[1] THEN ActivatedWith(r[1], syncer.highest)
                   ELSE Refused
              ELSE ActivatedWith(r[1], r[2])]_vars

\* C19: the range picked by Complete or FillGaps whose end is i32::MAX as u32
\* (2147483647) is the open-ended tail: activated with its end clamped to
\* highest if highest > start, refused (active stays None, nothing dispatched)
\* if highest <= start; a range with any other end is activated unchanged; no
\* Solidify request for an ms >= highest is sent out of the tail.
C19_TailClampedToHighest ==
    [][/\ AskPicks =>
              LET r == Unwrap(Picked(syncer, syncer'.ask))
              IN  IF r[2] = TailEnd
                  THEN IF syncer.highest > r[1]
                       THEN ActivatedWith(r[1], syncer.highest) /\ syncer'.tail
                       ELSE Refused
                  ELSE ActivatedWith(r[1], r[2]) /\ ~syncer'.tail
       /\ (IsSome(syncer'.active) /\ syncer'.tail) =>
              /\ Unwrap(syncer'.active).end <= syncer'.highest
              /\ \A ms \in Solidified : ms < syncer'.highest]_vars

C19_Witness ==
    /\ syncer.ask \in {"Complete", "FillGaps"}
    /\ IsSome(syncer.active)
    /\ syncer.tail
    /\ Unwrap(syncer.active).end = syncer.highest
    /\ syncer.requests # <<>>

\* The step is the bootstrap case of handle_milestone_data.
BootstrapStep == syncer.first_sent = 0 /\ syncer'.first_sent # 0

\* The ms the step has sent to the archiver.
Sent == SubSeq(syncer'.archiver, Len(syncer.archiver) + 1, Len(syncer'.archiver))

Jump(seq, i) == seq[i + 1] # seq[i] + 1

\* The index after the last jump of the sequence, its first index without one.
AfterLastJump(seq) ==
    IF \E i \in 1..(Len(seq) - 1) : Jump(seq, i)
    THEN seq[(CHOOSE i \in 1..(Len(seq) - 1) :
                 Jump(seq, i) /\ \A j \in (i + 1)..(Len(seq) - 1) : ~Jump(seq, j)) + 1]
    ELSE seq[1]

Forwarded ==
    /\ Len(Sent) = Len(syncer.milestones_data) + 1
    /\ syncer'.milestones_data = <<>>
    /\ \A i \in 1..(Len(Sent) - 1) : Sent[i] <= Sent[i + 1]
    /\ \A i \in 1..Len(syncer.milestones_data) :
          \E k \in 1..Len(Sent) : Sent[k] = syncer.milestones_data[i]
    /\ syncer'.highest = AfterLastJump(Sent)

\* C20 as stated: the bootstrap case forwards the buffered data in ascending
\* order, bumps highest to the index after each jump, and every forward jump
\* is registered as a gap of sync_data.
C20_JumpRegisteredAsGap ==
    [][BootstrapStep =>
          /\ Forwarded
          /\ \A i \in 1..(Len(Sent) - 1) :
                Sent[i + 1] > Sent[i] + 1 =>
                    \E k \in 1..Len(syncer'.gaps) :
                        /\ syncer'.gaps[k][1] <= Sent[i] + 1
                        /\ Sent[i + 1] <= syncer'.gaps[k][2]]_vars

\* C20: the bootstrap case forwards the buffered data in ascending order and
\* bumps highest to the index after each jump; no range is added to
\* sync_data, no gap is registered (the process_more that ends the step may
\* take a range out of it).
C20_BootstrapBumpsHighest ==
    [][BootstrapStep =>
          /\ Forwarded
          /\ Range(syncer'.gaps) \subseteq Range(syncer.gaps)
          /\ Range(syncer'.unlogged) \subseteq Range(syncer.unlogged)]_vars

C20_Witness ==
    /\ syncer.first_sent = Len(syncer.archiver)
    /\ syncer.first_sent >= 2
    /\ syncer.archiver[2] > syncer.archiver[1] + 1
    /\ syncer.highest = syncer.archiver[syncer.first_sent]
    /\ syncer.gaps = <<>>

\* The step handles a Process event: nothing is taken from the first
\* milestone data, no Ask is handled, the task keeps running, and neither the
\* heap nor the archiver changes (a MilestoneData event changes one of them).
ProcessStep ==
    /\ boot' = boot
    /\ syncer'.ask = ""
    /\ syncer'.status = syncer.status
    /\ syncer'.milestones_data = syncer.milestones_data
    /\ syncer'.archiver = syncer.archiver

\* The Solidify requests the step has sent, in the order of sending.
NewRequests == SubSeq(syncer'.requests, Len(syncer.requests) + 1, Len(syncer'.requests))

\* C31: a Process step with an active range sends at most solidifier_count
\* Solidify requests, for the ms at the front of the range in ascending
\* order, increases pending by the number of requests sent and sends the
\* request for ms to solidifier ms mod solidifier_count; with no active range
\* it sends nothing and changes neither pending nor next.
C31_ProcessDispatchesFromTheFront ==
    [][ProcessStep =>
          /\ SubSeq(syncer'.requests, 1, Len(syncer.requests)) = syncer.requests
          /\ IF IsSome(syncer.active)
             THEN LET a == Unwrap(syncer.active)
                  IN  /\ Len(NewRequests) <= solidifier_count
                      /\ \A i \in 1..Len(NewRequests) :
                            /\ NewRequests[i].ms = a.start + (i - 1)
                            /\ NewRequests[i].ms < a.end
                            /\ NewRequests[i].solidifier_id
                                   = NewRequests[i].ms % solidifier_count
                      /\ syncer'.pending = syncer.pending + Len(NewRequests)
             ELSE /\ NewRequests = <<>>
                  /\ syncer'.pending = syncer.pending
                  /\ syncer'.next = syncer.next]_vars

\* A Process event has sent solidifier_count requests out of a longer range.
C31_Witness ==
    /\ IsSome(syncer.active)
    /\ syncer.ask = ""
    /\ syncer.archiver = <<>>
    /\ syncer.milestones_data = <<>>
    /\ Len(syncer.requests) = solidifier_count
    /\ Unwrap(syncer.active).start = syncer.range_start + solidifier_count
    /\ Unwrap(syncer.active).start < Unwrap(syncer.active).end

\* The active range of the step's start is no longer the active range.
RangeLeft ==
    /\ IsSome(syncer.active)
    /\ syncer'.active = None \/ syncer'.range_start # syncer.range_start

\* A Solidify request of the range that was active is unanswered after the step.
RangeUnanswered ==
    \E i \in 1..Len(syncer'.requests) :
        /\ syncer.range_start <= syncer'.requests[i].ms
        /\ syncer'.requests[i].ms < Unwrap(syncer.active).end

\* C32: the active range is left (active cleared, or replaced by the next
\* range) only when it is exhausted and the event handled brings pending to
\* 0; the next range is then taken by the take of the same mode; while a
\* Solidify request of an exhausted range is unanswered the range stays
\* active and no range of sync_data is taken.
C32_RangeLeftOnlyWhenAnswered ==
    [][/\ RangeLeft =>
              LET a == Unwrap(syncer.active)
                  t == IF a.mode = "Complete" THEN take_lowest_uncomplete(syncer)
                       ELSE take_lowest_gap(syncer)
              IN  /\ a.start = a.end
                  /\ syncer.pending = 1
                  /\ ~RangeUnanswered
                  /\ syncer'.gaps = t[2].gaps
                  /\ syncer'.unlogged = t[2].unlogged
                  /\ IsSome(syncer'.active) =>
                        /\ Unwrap(syncer'.active).mode = a.mode
                        /\ syncer'.range_start = Unwrap(t[1])[1]
       /\ (/\ IsSome(syncer.active)
           /\ Unwrap(syncer.active).start = Unwrap(syncer.active).end
           /\ RangeUnanswered) =>
              /\ syncer'.active = syncer.active
              /\ syncer'.gaps = syncer.gaps
              /\ syncer'.unlogged = syncer.unlogged]_vars

\* A second gap is active, taken by fill_gaps when the first was exhausted
\* and answered, and its first requests are sent.
C32_Witness ==
    /\ IsSome(syncer.active)
    /\ Unwrap(syncer.active).mode = "FillGaps"
    /\ syncer.first_sent > 0
    /\ syncer.mark > syncer.first_sent
    /\ Len(syncer.archiver) = syncer.mark
    /\ syncer.requests # <<>>
    /\ syncer.pending = Len(syncer.requests)

\* C38: with every Solidify request answered, no milestone data stays on the
\* heap forever while the task runs: the heap is emptied into the archiver.
C38_HeapIsDrained ==
    (syncer.milestones_data # <<>>) ~> (syncer.milestones_data = <<>> \/ ~SRunning)

\* C36: in every reachable state pending is the number of Solidify requests
\* sent and not answered (the first milestone data, which the solidifiers
\* send unrequested, counted with them), it is not below zero and it does not
\* exceed solidifier_count.
C36_PendingWithinSolidifierCount ==
    /\ syncer.pending = Len(syncer.requests) + Cardinality(boot)
    /\ syncer.pending >= 0
    /\ syncer.pending <= solidifier_count

\* C33: the bootstrap case sets the next expected index: after the step
\* next = (ms of the last entry forwarded) + 1.
C33_BootstrapSetsNext ==
    [][BootstrapStep => syncer'.next = Sent[Len(Sent)] + 1]_vars

\* The ms the bootstrap case has forwarded to the archiver.
BootstrapSent == {syncer.archiver[i] : i \in 1..syncer.first_sent}

\* After the bootstrap case highest is at least every ms it has forwarded.
HighestCoversSent == BootstrapStep => \A i \in 1..Len(Sent) : Sent[i] <= syncer'.highest

\* While the range out of the open-ended tail is the last one activated, no
\* ms the bootstrap case has forwarded is asked from a solidifier or forwarded.
TailSparesBootstrap ==
    (syncer.first_sent # 0 /\ syncer'.tail) =>
        /\ \A i \in 1..Len(NewRequests) : NewRequests[i].ms \notin BootstrapSent
        /\ \A i \in 1..Len(Sent) : Sent[i] \notin BootstrapSent

\* C40: after the bootstrap case highest is at least every ms forwarded to
\* the archiver by it, and the open-ended tail clamped to highest never has
\* an ms the bootstrap case forwarded solidified and forwarded a second time.
C40_HighestCoversBootstrap ==
    [][HighestCoversSent /\ TailSparesBootstrap]_vars

-----------------------------------------------------------------------------
(* Properties of the collector *)

JoinedRow(id) == <<"messages", id, "joined">>

\* No event of another message than id has been handled, except
\* MessageReferenced events.
OnlyReferencedOfOthers(id) ==
    \A other \in MsgIds \ {id} : <<"Message", other>> \notin delivered

\* C7: replaying the (Message, MessageReferenced) pair of an id after the
\* pair has been processed leaves the id's set of inserted rows as it was
\* after the first processing (no row omitted, no row added with another
\* ms, partition id or inclusion state), also when MessageReferenced events
\* of other messages were processed in between.
C7_ReplayIdempotent ==
    \A id \in MsgIds :
        (IsSome(done[id]) /\ OnlyReferencedOfOthers(id))
            => RowsOf(id, collector.rows) = Unwrap(done[id])

\* The entries of a cache, whatever their recency.
Entries(lru) == Range(lru)

\* C8: an event whose id is cached (a Message with its id in lru_msg, a
\* MessageReferenced with its id in lru_msg_ref) sends no insert request and
\* writes no row; the caches keep their entries, and the only field that
\* changes is est_ms, which a MessageReferenced sets to its ref_ms.
C8_CachedIssuesNoInsert ==
    [][(last'.n = last.n + 1 /\ last'.hit) =>
          /\ collector'.inserts = collector.inserts
          /\ collector'.rows = collector.rows
          /\ collector'.status = collector.status
          /\ Entries(collector'.lru_msg) = Entries(collector.lru_msg)
          /\ Entries(collector'.lru_msg_ref) = Entries(collector.lru_msg_ref)
          /\ collector'.est_ms = IF last'.kind = "MessageReferenced"
                                 THEN ref_of[last'.id] ELSE collector.est_ms]_vars

\* A MessageReferenced for a cached id has been handled after inserts were
\* made, and it has changed est_ms.
C8_Witness ==
    /\ last.hit
    /\ last.kind = "MessageReferenced"
    /\ collector.inserts > 0
    /\ \E e \in Entries(collector.lru_msg) : e.est_ms # collector.est_ms

\* C9: once both events of an id have been handed to the collector, in
\* either order and for any est_ms and ref_ms, the joined (message,
\* metadata) row of the id has been inserted.
C9_JoinedOnceBoth ==
    \A id \in MsgIds :
        (<<"Message", id>> \in delivered /\ <<"MessageReferenced", id>> \in delivered)
            => JoinedRow(id) \in collector.rows

\* The ParentRecord and HashedIndexRecord rows written by the step.
FanOutInserted ==
    {r \in collector'.rows \ collector.rows : r[1] \in {"parents", "hashed_index"}}

\* C21: every ParentRecord and IndexRecord the collector inserts carries the
\* milestone est_ms + 1 and the partition id of est_ms + 1, est_ms being the
\* collector's estimate when the insert is made, on the Message path and on
\* the MessageReferenced path alike.
C21_FanOutAtEstMsPlusOne ==
    [][\A r \in FanOutInserted :
           /\ r[4] = collector'.est_ms + 1
           /\ r[3] = PartitionOf(collector'.est_ms + 1)]_vars

\* C22: no single event stops the collector: every Message event and every
\* MessageReferenced event is completed and the task goes on to receive the
\* next one.
C22_NoEventStopsTheTask == collector.status = "running"

\* The primary keys (parent, partition id, ms) of the ParentRecord rows of
\* the child id among rows.
ParentKeys(id, rows) ==
    {<<r[2], r[3], r[4]>> : r \in {x \in rows : x[1] = "parents" /\ x[5] = id}}

\* C37: once both events of a message have been processed, the parents table
\* holds exactly one ParentRecord for each (parent, child) pair.
C37_OneParentRecordPerPair ==
    \A id \in MsgIds :
        IsSome(done[id]) =>
            \A i \in 1..Len(Parents(id)) :
                Cardinality({k \in ParentKeys(id, Unwrap(done[id])) :
                                k[1] = Parents(id)[i]}) = 1

-----------------------------------------------------------------------------
(* Properties of the HTTP handlers *)

Answered(endpoint) == api.endpoint = endpoint /\ api.error = ""

AnyUnlockIncluded ==
    \E i \in DOMAIN api.request.unlock_blocks :
        api.request.unlock_blocks[i].inclusion_state = Included

\* The metadata of a message referring to the output (of an unlock block) is
\* Included.
AnyReferringMetadataIncluded ==
    \E i \in DOMAIN api.request.unlock_blocks :
        LET m == api.request.metadata[api.request.unlock_blocks[i].message_id]
        IN  m.kind = "Some" /\ m.ledger_inclusion_state = Included

\* C13: get_output answers is_spent = true whenever at least one unlock block
\* is Included, whatever its position and whatever the other blocks' states
\* and the messages' metadata are; when no unlock block is Included, is_spent
\* is true exactly when the metadata of at least one referring message is
\* Included; an output without unlock blocks has is_spent = false.
C13_IsSpent ==
    Answered("get_output") =>
        /\ AnyUnlockIncluded => api.response.is_spent
        /\ (~AnyUnlockIncluded) =>
               (api.response.is_spent <=> AnyReferringMetadataIncluded)
        /\ (api.request.unlock_blocks = <<>>) => ~api.response.is_spent

\* C14: when an unlock block is Included, get_output makes no metadata query;
\* metadata queries are made only when no unlock block is Included.
C14_NoMetadataQueryWhenIncluded ==
    (Answered("get_output") /\ AnyUnlockIncluded) =>
        ~\E q \in api.queries : q[1] = "metadata"

PagedEndpoints == {"get_message_children", "get_message_by_index",
                   "get_ed25519_outputs", "get_transactions_for_address"}

\* The state parameter is not valid hex, or its bytes do not deserialize, or
\* they deserialize to a StateData with empty partition_ids.
BadState(param) ==
    /\ IsSome(param)
    /\ LET v == from_hex(Unwrap(param))
       IN  \/ ~v.ok
           \/ ~deserialize(v.bytes).ok
           \/ deserialize(v.bytes).value.partition_ids = <<>>

\* The tag of a by-index request: its bytes, or no tag when the parameter is
\* not the hex form of one.
Tag(index, utf8) ==
    IF utf8 = Some(TRUE) THEN Some(as_bytes(index))
    ELSE IF from_hex(index).ok THEN Some(from_hex(index).bytes) ELSE None

\* The parameters other than state are accepted by the handler.
OtherParametersValid ==
    /\ api.request.keyspace_known
    /\ api.request.parses
    /\ api.endpoint = "get_message_by_index" =>
          LET tag == Tag(api.request.index, api.request.utf8)
          IN  IsSome(tag) /\ Len(Unwrap(tag)) <= MaxTagLen

\* C15: on every paged endpoint a state parameter that is not valid hex, does
\* not deserialize or deserializes to empty partition_ids is never answered
\* with Other (nor with Ok) and no storage query is made for it; the request
\* being valid otherwise, the answer is InvalidState.
C15_BadStateIsInvalidState ==
    (api.endpoint \in PagedEndpoints /\ BadState(api.request.state)) =>
        /\ api.error \notin {"", "Other"}
        /\ api.queries = {}
        /\ OtherParametersValid => api.error = "InvalidState"

C15_Witness ==
    /\ api.endpoint = "get_transactions_for_address"
    /\ OtherParametersValid
    /\ IsSome(api.request.state)
    /\ from_hex(Unwrap(api.request.state)).ok
    /\ deserialize(from_hex(Unwrap(api.request.state)).bytes).ok
    /\ BadState(api.request.state)
    /\ api.error = "InvalidState"

\* C16: get_message_by_index (keyspace known) answers IndexTooLarge exactly
\* for the tags of more than 64 bytes, and without a storage query: with
\* utf8 = true the tag is the UTF-8 bytes of the parameter, otherwise the
\* hex-decoded parameter; a tag of at most 64 bytes is never too large.
C16_IndexTooLargeExactly ==
    (api.endpoint = "get_message_by_index" /\ api.request.keyspace_known) =>
        LET tag == Tag(api.request.index, api.request.utf8)
        IN  /\ api.error = "IndexTooLarge" <=> (IsSome(tag) /\ Len(Unwrap(tag)) > MaxTagLen)
            /\ api.error = "IndexTooLarge" => api.queries = {}

C16_Witness ==
    /\ api.endpoint = "get_message_by_index"
    /\ api.request.utf8 = Some(TRUE)
    /\ Len(api.request.index) <= MaxTagLen
    /\ api.error = "IndexTooLarge"

\* A by-index request (keyspace known, utf8 not true) whose index is a string
\* of more than 128 hexadecimal characters.
LongHexIndex ==
    /\ api.endpoint = "get_message_by_index"
    /\ api.request.keyspace_known
    /\ api.request.utf8 # Some(TRUE)
    /\ Len(api.request.index) > 2 * MaxTagLen
    /\ \A i \in 1..Len(api.request.index) : HexValue(api.request.index[i]) # -1

\* C17 as stated: every index string of more than 128 hex characters, the one
\* of 129 characters included, is answered with IndexTooLarge.
C17_LongIndexTooLarge == LongHexIndex => api.error = "IndexTooLarge"

\* C17: an index string of more than 128 hex characters is answered with
\* IndexTooLarge when its length is even and with InvalidHex when it is odd
\* (129 characters).
C17_LongIndexByParity ==
    LongHexIndex =>
        api.error = IF Len(api.request.index) % 2 = 0 THEN "IndexTooLarge"
                    ELSE "InvalidHex"

C17_Witness ==
    LongHexIndex /\ Len(api.request.index) = 2 * MaxTagLen + 1 /\ api.error = "InvalidHex"

\* The endpoints that parse a path parameter themselves: a message id, an
\* address, a transaction id or an output id.
PathParameterEndpoints ==
    {"get_message", "get_message_metadata", "get_message_children", "get_output",
     "get_output_by_transaction_id", "get_ed25519_outputs",
     "get_transactions_for_address", "get_transaction_for_message",
     "get_transaction_included_message"}

\* The request has a path parameter that does not parse, the keyspace is
\* known and the state parameter, where there is one, is accepted.
BadPathParameter ==
    /\ api.endpoint \in PathParameterEndpoints
    /\ api.request.keyspace_known
    /\ ~api.request.parses
    /\ api.endpoint \in PagedEndpoints => ~BadState(api.request.state)

\* C24: on every endpoint a path parameter that cannot be parsed (message id,
\* address, transaction id, output id) is answered with BadParse or
\* InvalidHex, never with Other, and no storage query is made.
C24_BadPathParameterIsParseError ==
    BadPathParameter =>
        /\ api.error \in {"BadParse", "InvalidHex"}
        /\ api.queries = {}

\* C25: when the storage fails a select, the endpoint answers with error kind
\* Other whose body carries the message of the cause; the failure is never
\* answered with NotFound or NoResults (nor with a success).
C25_FailedSelectIsOther ==
    api.failed # {} =>
        /\ api.error = "Other"
        /\ api.response = [message |-> WorkerError]

CorsHeaders ==
    {<<"Access-Control-Allow-Origin", "*">>,
     <<"Access-Control-Allow-Methods", "GET, OPTIONS">>,
     <<"Access-Control-Allow-Headers", "*">>,
     <<"Access-Control-Allow-Credentials", "true">>}

\* C26: every response (success, error, and OPTIONS on any path under /api,
\* which is a success without a body) carries the four CORS headers, each
\* with its one value.
C26_EveryResponseCarriesCors ==
    api.endpoint # "none" =>
        /\ CorsHeaders \subseteq api.headers
        /\ \A h \in api.headers :
               (\E c \in CorsHeaders : c[1] = h[1]) => h \in CorsHeaders
        /\ api.endpoint = "options" => (api.error = "" /\ api.response = <<>>)

C26_Witness ==
    /\ api.endpoint = "options"
    /\ api.error = ""
    /\ CorsHeaders = api.headers

-----------------------------------------------------------------------------
(* Properties of the transaction data columns *)

\* The tags of the variants of a type, none for a struct.
TagsOf(type) ==
    IF type = "TransactionData" THEN {0, 1, 2}
    ELSE IF type = "InputData" THEN {0, 1} ELSE {}

TagOf(type, v) ==
    IF type = "TransactionData"
    THEN (IF v.variant = "Input" THEN 0 ELSE IF v.variant = "Output" THEN 1 ELSE 2)
    ELSE (IF v.variant = "Utxo" THEN 0 ELSE 1)

\* C23: for every TransactionData, InputData and UnlockData value v,
\* unpack(pack(v)) = v, all of the bytes being read; pack writes the tag of
\* the variant first (InputData: 0 Utxo, 1 Treasury; TransactionData: 0
\* Input, 1 Output, 2 Unlock); a first byte outside the tags of the type
\* makes unpack fail.
C23_UnpackPackIsIdentity ==
    /\ codec.op = "pack" =>
          /\ codec.result.ok
          /\ codec.result.value = codec.value
          /\ codec.result.next = Len(codec.bytes) + 1
          /\ TagsOf(codec.type) # {} => codec.bytes[1] = TagOf(codec.type, codec.value)
    /\ (codec.op = "unpack" /\ TagsOf(codec.type) # {} /\ codec.bytes # <<>>
            /\ codec.bytes[1] \notin TagsOf(codec.type)) => ~codec.result.ok

C23_Witness ==
    /\ codec.op = "pack"
    /\ codec.type = "TransactionData"
    /\ codec.value.variant = "Unlock"
    /\ codec.value.unlock_data.input_index = 256
    /\ codec.result.value = codec.value

====
